---- MODULE Spec2Model ----
(***************************************************************************)
(* State-machine model of the publishing bot in src/main.py: sessions,     *)
(* temporary grants, the publish fan-out, campaigns, reaction votes, the   *)
(* rebroadcast scheduler and the persistent store.                         *)
(*                                                                         *)
(* Conventions.  None is 0 for integer-valued fields.  Dictionaries are    *)
(* functions on a finite domain.  A dictionary key carries its Python      *)
(* type, because JSON persistence turns int keys and tuple keys into       *)
(* strings and an int lookup does not find a string key:                   *)
(*    IK(n)   the int n            SK(n)   the string "n"                  *)
(*    TK(a,b) the tuple (a, b)     PK(a,b) the string "a|b"                *)
(***************************************************************************)
EXTENDS Integers, Sequences, FiniteSets, TLC

\* ------------------------------------------------------------------ bounds
NumUsers == 2
NumChats == 2
MaxTime == 40
TimeStep == 20
MaxPubs == 2
MaxFanOuts == 1
MaxCampaigns == 2
MaxJobs == 2
MaxMid == 5
MaxTokens == 1
TokenSlots == 2
MaxVotes == 2
MaxTotal == 2
MaxRestarts == 1

\* ------------------------------------------------------- program constants
GRANT_TTL_MINUTES == 30
MAX_CONCURRENCY == 5
DefaultRebroadcastTotal == 4

Users == 1..NumUsers
Chats == 1..NumChats
Actions == {"like", "dislike"}

\* ------------------------------------------------------------ dictionaries
EmptyMap == [x \in {} |-> 0]
Put(f, k, v) == [x \in (DOMAIN f) \cup {k} |-> IF x = k THEN v ELSE f[x]]
Del(f, k) == [x \in (DOMAIN f) \ {k} |-> f[x]]
Has(f, k) == k \in DOMAIN f

IK(n) == <<"int", n>>
SK(n) == <<"str", n>>
TK(a, b) == <<"tup", a, b>>
PK(a, b) == <<"str", a, b>>

ZeroCounter == [like |-> 0, dislike |-> 0, voters |-> EmptyMap]

VARIABLES
    \* settings
    global_settings, disabled_chats, blocked_admins, known_chats_admins,
    \* temporary grants
    temp_grants, start_tokens,
    \* sessions: the Session object of every user who has one
    sessions,
    \* campaigns and reactions
    campaign_seq, campaign_messages, campaign_base_msg, message_to_campaign,
    campaign_prompt_msgs, campaign_counters, reactions_counters,
    \* scheduler: registry and the job queue's timers
    active_rebroadcasts, jobs,
    \* coroutines in flight: publish / tick fan-outs and vote handlers
    pubs, votes,
    \* environment: clock, Telegram message ids, messages delivered, the like and
    \* dislike numbers each reaction prompt shows on its buttons, last reply
    now, next_mid, delivered, keyboards, reply,
    \* the state file, and how often the process was restarted
    disk, restarts

settingsVars == <<global_settings, disabled_chats, blocked_admins, known_chats_admins>>
grantVars == <<temp_grants, start_tokens>>
sessVars == <<sessions>>
campVars == <<campaign_seq, campaign_messages, campaign_base_msg, message_to_campaign,
              campaign_prompt_msgs, campaign_counters, reactions_counters>>
schedVars == <<active_rebroadcasts, jobs>>
envVars == <<now, next_mid, delivered, keyboards>>
vars == <<settingsVars, grantVars, sessVars, campVars, schedVars, pubs, votes,
          envVars, reply, disk, restarts>>

\* ------------------------------------------------------------- persistence
\* _pack_tuple_keys: tuple keys and already packed keys both become "a|b";
\* the entry inserted later (the tuple key) wins.
_pack_tuple_keys(d) ==
    [k \in {PK(x[2], x[3]) : x \in DOMAIN d} |->
        IF Has(d, TK(k[2], k[3])) THEN d[TK(k[2], k[3])] ELSE d[PK(k[2], k[3])]]

\* json.dump of a dict: every int key is written as a string
StrKeys(d) ==
    [k \in {SK(x[2]) : x \in DOMAIN d} |->
        IF Has(d, IK(k[2])) THEN d[IK(k[2])] ELSE d[SK(k[2])]]

\* save_state's clean-up of campaign_messages: the lists under "n" and n are
\* concatenated (the loaded string key first) and repeated pairs dropped
RECURSIVE Dedup(_)
Dedup(q) ==
    IF q = <<>> THEN <<>>
    ELSE LET front == Dedup(SubSeq(q, 1, Len(q) - 1))
             last == q[Len(q)]
         IN IF \E i \in 1..Len(front) : front[i] = last THEN front ELSE Append(front, last)

MergeMessages(d) ==
    [k \in {SK(x[2]) : x \in DOMAIN d} |->
        Dedup((IF Has(d, SK(k[2])) THEN d[SK(k[2])] ELSE <<>>)
              \o (IF Has(d, IK(k[2])) THEN d[IK(k[2])] ELSE <<>>))]

JsonCounter(rec) == [like |-> rec.like, dislike |-> rec.dislike, voters |-> StrKeys(rec.voters)]

\* the seven keys of global_settings that build_persist_snapshot copies
SnapshotSettings(gs) ==
    [reactions_feature_enabled |-> gs.reactions_feature_enabled,
     pin_feature_enabled |-> gs.pin_feature_enabled,
     scheduling_enabled |-> gs.scheduling_enabled,
     rebroadcast_total |-> gs.rebroadcast_total]

\* build_persist_snapshot followed by json.dump: the buckets that reach the file
build_persist_snapshot ==
    [campaign_messages |-> MergeMessages(campaign_messages),
     campaign_base_msg |-> _pack_tuple_keys(campaign_base_msg),
     message_to_campaign |-> _pack_tuple_keys(message_to_campaign),
     campaign_counters |-> [k \in DOMAIN StrKeys(campaign_counters) |->
                               JsonCounter(StrKeys(campaign_counters)[k])],
     reactions_counters |-> [k \in DOMAIN _pack_tuple_keys(reactions_counters) |->
                               JsonCounter(_pack_tuple_keys(reactions_counters)[k])],
     global_settings |-> SnapshotSettings(global_settings)]

NoFile == [missing |-> TRUE]

\* save_state: the whole snapshot overwrites the state file
save_state == disk' = build_persist_snapshot'

\* ------------------------------------------------------------------ grants
_user_has_active_grant(user_id) ==
    /\ Has(temp_grants, user_id)
    /\ ~temp_grants[user_id].used
    /\ now <= temp_grants[user_id].expires

_grant_active_for(user_id, chat_id) ==
    /\ Has(temp_grants, user_id)
    /\ ~temp_grants[user_id].used
    /\ temp_grants[user_id].chat_id = chat_id
    /\ now <= temp_grants[user_id].expires

\* chats_where_user_is_admin: from the bot's cache of chat admins
chats_where_user_is_admin(user_id) == {c \in Chats : user_id \in known_chats_admins[c]}

\* get_chat_member: user 1 is an administrator of every chat, nobody else is
TgAdmins(c) == {1}

\* list_authorized_chats: admin of the chat (get_chat_member) and not blocked there
list_authorized_chats(user_id) ==
    {c \in Chats : user_id \in TgAdmins(c) /\ user_id \notin blocked_admins[c]}

\* ---------------------------------------------------------------- sessions
Session(use_reactions, total) ==
    [stage |-> "waiting_first_input", text |-> 0, media_list |-> 0,
     single_attachment |-> "none", use_reactions |-> use_reactions,
     pin_enabled |-> TRUE, chosen_chats |-> {}, schedule_active |-> FALSE,
     rebroadcast_total |-> total, campaign_id |-> 0, allowed_chats |-> {},
     is_temp_granted |-> FALSE, granted_by |-> 0]

HasSession(u) == Has(sessions, u)
Sess(u) == sessions[u]
SetSess(u, s) == sessions' = [sessions EXCEPT ![u] = s]

\* send_post_one_chat sends nothing, and returns None, for a session without content
HasContent(s) == s.text > 0 \/ s.media_list > 0 \/ s.single_attachment # "none"

\* what the last handler answered: the operation, its user and the answer
RA(op, u, text, arg) == [op |-> op, user |-> u, text |-> text, arg |-> arg]
R(op, u, text) == RA(op, u, text, <<>>)

\* --------------------------------------------------------------- the clock
AdvanceTime ==
    /\ now + TimeStep <= MaxTime
    /\ now' = now + TimeStep
    /\ reply' = R("clock", 0, "")
    /\ UNCHANGED <<settingsVars, grantVars, sessVars, campVars, schedVars, pubs, votes,
                   next_mid, delivered, keyboards, disk, restarts>>

\* ----------------------------------------------------------- control panel
\* handle_control_buttons, panel:maint_toggle
PanelMaintToggle(u) ==
    /\ global_settings' = [global_settings EXCEPT !.maintenance_mode = ~@]
    /\ reply' = R("maint_toggle", u, "ok")
    /\ UNCHANGED <<disabled_chats, blocked_admins, known_chats_admins, grantVars, sessVars,
                   campVars, schedVars, pubs, votes, envVars, restarts>>
    /\ save_state

\* handle_control_buttons, panel:sched_toggle
PanelSchedToggle(u) ==
    /\ global_settings' = [global_settings EXCEPT !.scheduling_enabled = ~@]
    /\ reply' = R("sched_toggle", u, "ok")
    /\ UNCHANGED <<disabled_chats, blocked_admins, known_chats_admins, grantVars, sessVars,
                   campVars, schedVars, pubs, votes, envVars, restarts>>
    /\ save_state

\* handle_control_buttons, panel:react_toggle
PanelReactToggle(u) ==
    /\ global_settings' = [global_settings EXCEPT !.reactions_feature_enabled = ~@]
    /\ reply' = R("react_toggle", u, "ok")
    /\ UNCHANGED <<disabled_chats, blocked_admins, known_chats_admins, grantVars, sessVars,
                   campVars, schedVars, pubs, votes, envVars, restarts>>
    /\ save_state

\* handle_control_buttons, panel:pin_toggle
PanelPinToggle(u) ==
    /\ global_settings' = [global_settings EXCEPT !.pin_feature_enabled = ~@]
    /\ reply' = R("pin_toggle", u, "ok")
    /\ UNCHANGED <<disabled_chats, blocked_admins, known_chats_admins, grantVars, sessVars,
                   campVars, schedVars, pubs, votes, envVars, restarts>>
    /\ save_state

\* handle_control_buttons, panel:toggle_chat:<cid>
PanelToggleChat(u, c) ==
    /\ disabled_chats' = [disabled_chats EXCEPT ![u] =
                             IF c \in @ THEN @ \ {c} ELSE @ \cup {c}]
    /\ reply' = R("panel_toggle_chat", u, "ok")
    /\ UNCHANGED <<global_settings, blocked_admins, known_chats_admins, grantVars, sessVars,
                   campVars, schedVars, pubs, votes, envVars, restarts>>
    /\ save_state

\* handle_control_buttons, perm:toggle:<chat>:<uid>
PermToggle(u, c, uid) ==
    /\ blocked_admins' = [blocked_admins EXCEPT ![c] =
                             IF uid \in @ THEN @ \ {uid} ELSE @ \cup {uid}]
    /\ reply' = R("perm_toggle", u, "ok")
    /\ UNCHANGED <<global_settings, disabled_chats, known_chats_admins, grantVars, sessVars,
                   campVars, schedVars, pubs, votes, envVars, restarts>>
    /\ save_state

\* ------------------------------------------------------------------ grants
\* cmd_temp_ok: an admin of the chat replies /ok to a message of the target, in
\* a run that keeps at most `slots` deep links outstanding
IssueGrant(granter, target, chat, slots) ==
    /\ granter \in TgAdmins(chat)
    /\ \E k \in 1..slots : ~Has(start_tokens, k)
    /\ LET expires == now + GRANT_TTL_MINUTES
           token == CHOOSE k \in 1..slots :
                        ~Has(start_tokens, k) /\ \A j \in 1..(k - 1) : Has(start_tokens, j)
       IN
        /\ start_tokens' = Put(start_tokens, token,
                               [user_id |-> target, chat_id |-> chat, expires |-> expires])
        /\ temp_grants' = Put(temp_grants, target,
                              [chat_id |-> chat, expires |-> expires, used |-> FALSE,
                               granted_by |-> granter])
    /\ reply' = R("grant", target, "granted")
    /\ UNCHANGED <<settingsVars, sessVars, campVars, schedVars, pubs, votes, envVars, restarts>>
    /\ save_state

cmd_temp_ok(granter, target, chat) == IssueGrant(granter, target, chat, MaxTokens)

\* A publish task in flight keeps the Session object it was started with.  While
\* that object is still sessions[u] the task is "shared" and sees the handlers'
\* changes; when sessions[u] is replaced or popped the task keeps the old object.
Detached(u) ==
    [t \in 1..Len(pubs) |->
        IF pubs[t].shared /\ pubs[t].user = u
        THEN [pubs[t] EXCEPT !.shared = FALSE, !.tmp = sessions[u]]
        ELSE pubs[t]]

\* the session of a grant holder starts with every chat chosen
GrantSession_ChoosesAll(u, s0) ==
    IF Has(temp_grants, u) /\ ~temp_grants[u].used /\ now <= temp_grants[u].expires
    THEN [s0 EXCEPT !.allowed_chats = {temp_grants[u].chat_id},
                    !.is_temp_granted = TRUE,
                    !.granted_by = temp_grants[u].granted_by,
                    !.chosen_chats = Chats]
    ELSE s0

\* the grant is attached whenever it has not expired, used or not
GrantSession_IgnoresUsed(u, s0) ==
    IF Has(temp_grants, u) /\ now <= temp_grants[u].expires
    THEN [s0 EXCEPT !.allowed_chats = {temp_grants[u].chat_id},
                    !.is_temp_granted = TRUE,
                    !.granted_by = temp_grants[u].granted_by,
                    !.chosen_chats = {temp_grants[u].chat_id}]
    ELSE s0

\* start_publishing_session: a new Session object replaces the user's session
GrantSession(u, s0) ==
    IF Has(temp_grants, u) /\ ~temp_grants[u].used /\ now <= temp_grants[u].expires
    THEN [s0 EXCEPT !.allowed_chats = {temp_grants[u].chat_id},
                    !.is_temp_granted = TRUE,
                    !.granted_by = temp_grants[u].granted_by,
                    !.chosen_chats = {temp_grants[u].chat_id}]
    ELSE s0

start_publishing_session(u) ==
    /\ sessions' = Put(sessions, u,
                       GrantSession(u, Session(TRUE, global_settings.rebroadcast_total)))
    /\ pubs' = Detached(u)

\* start_publishing_keyword: "ok" in the private chat
start_publishing_keyword(u) ==
    /\ UNCHANGED <<settingsVars, grantVars, campVars, schedVars, votes, envVars, restarts>>
    /\ IF global_settings.maintenance_mode
       THEN /\ reply' = R("keyword", u, "maintenance")
            /\ UNCHANGED <<sessVars, pubs, disk>>
       ELSE IF _user_has_active_grant(u) \/ chats_where_user_is_admin(u) # {}
       THEN /\ start_publishing_session(u)
            /\ reply' = R("keyword", u, "session")
            /\ save_state
       ELSE /\ reply' = R("keyword", u, "denied")
            /\ UNCHANGED <<sessVars, pubs, disk>>

\* start_with_token: /start <token> in the private chat
start_with_token(u, tok) ==
    /\ UNCHANGED <<settingsVars, campVars, schedVars, votes, envVars, restarts>>
    /\ ~global_settings.maintenance_mode
    /\ IF ~Has(start_tokens, tok)
       THEN /\ reply' = R("token", u, "invalid")
            /\ UNCHANGED <<grantVars, sessVars, pubs, disk>>
       ELSE IF u # start_tokens[tok].user_id
       THEN /\ reply' = R("token", u, "not_yours")
            /\ UNCHANGED <<grantVars, sessVars, pubs, disk>>
       ELSE IF now > start_tokens[tok].expires
       THEN /\ start_tokens' = Del(start_tokens, tok)
            /\ temp_grants' = Del(temp_grants, u)
            /\ reply' = R("token", u, "expired")
            /\ UNCHANGED <<sessVars, pubs>>
            /\ save_state
       ELSE /\ start_publishing_session(u)
            /\ start_tokens' = Del(start_tokens, tok)
            /\ reply' = R("token", u, "session")
            /\ UNCHANGED temp_grants
            /\ save_state

\* ------------------------------------------------------ input and buttons
\* every accepted item of content sends the session to the collecting stage
StageAfterInput_Resets(stage) == "collecting"

\* handle_admin_input: the stage after an accepted item of content
StageAfterInput(stage) ==
    IF stage = "waiting_first_input" THEN "collecting" ELSE stage

\* handle_admin_input: one accepted item of content
handle_admin_input(u, kind) ==
    /\ ~global_settings.maintenance_mode
    /\ HasSession(u)
    /\ LET s == Sess(u)
           s1 == CASE kind = "text" -> [s EXCEPT !.text = 1]
                   [] kind = "photo" -> [s EXCEPT !.media_list = 1]
                   [] OTHER -> [s EXCEPT !.single_attachment = kind]
       IN SetSess(u, [s1 EXCEPT !.stage = StageAfterInput(@)])
    /\ reply' = R("input", u, kind)
    /\ UNCHANGED <<settingsVars, grantVars, campVars, schedVars, pubs, votes,
                   envVars, restarts>>
    /\ save_state

ButtonFrame ==
    UNCHANGED <<settingsVars, grantVars, campVars, schedVars, pubs, votes, envVars, restarts>>

\* on_button "done"
on_button_done(u) ==
    /\ HasSession(u)
    /\ LET s == Sess(u)
           s1 == IF s.is_temp_granted /\ s.allowed_chats # {}
                 THEN [s EXCEPT !.chosen_chats = s.allowed_chats] ELSE s
       IN SetSess(u, [s1 EXCEPT !.stage = "ready_options"])
    /\ reply' = R("done", u, "ok")
    /\ ButtonFrame /\ save_state

\* on_button "back_to_collect"
on_button_back_to_collect(u) ==
    /\ HasSession(u)
    /\ SetSess(u, [Sess(u) EXCEPT !.stage = "collecting"])
    /\ reply' = R("back_to_collect", u, "ok")
    /\ ButtonFrame /\ save_state

\* the destinations and the grant of the old session are kept
ClearedSession_KeepsChats(s) ==
    [Session(TRUE, global_settings.rebroadcast_total) EXCEPT
        !.chosen_chats = s.chosen_chats, !.allowed_chats = s.allowed_chats,
        !.is_temp_granted = s.is_temp_granted]

\* on_button "clear": the Session object that replaces the session s
ClearedSession(s) == Session(TRUE, global_settings.rebroadcast_total)

\* on_button "clear": a fresh Session object, built without the grant
on_button_clear(u) ==
    /\ HasSession(u)
    /\ sessions' = Put(sessions, u, ClearedSession(Sess(u)))
    /\ pubs' = Detached(u)
    /\ reply' = R("clear", u, "ok")
    /\ UNCHANGED <<settingsVars, grantVars, campVars, schedVars, votes, envVars, restarts>>
    /\ save_state

\* on_button "cancel"
on_button_cancel(u) ==
    /\ HasSession(u)
    /\ sessions' = Del(sessions, u)
    /\ pubs' = Detached(u)
    /\ reply' = R("cancel", u, "ok")
    /\ UNCHANGED <<settingsVars, grantVars, campVars, schedVars, votes, envVars, restarts>>
    /\ save_state

\* on_button "toggle_reactions"
on_button_toggle_reactions(u) ==
    /\ HasSession(u)
    /\ global_settings.reactions_feature_enabled
    /\ SetSess(u, [Sess(u) EXCEPT !.use_reactions = ~@])
    /\ reply' = R("toggle_reactions", u, "ok")
    /\ ButtonFrame /\ save_state

\* on_button "toggle_pin"
on_button_toggle_pin(u) ==
    /\ HasSession(u)
    /\ global_settings.pin_feature_enabled
    /\ SetSess(u, [Sess(u) EXCEPT !.pin_enabled = ~@])
    /\ reply' = R("toggle_pin", u, "ok")
    /\ ButtonFrame /\ save_state

\* on_button "ssched_count:<cnt>"
on_button_ssched_count(u, cnt) ==
    /\ HasSession(u)
    /\ global_settings.scheduling_enabled
    /\ SetSess(u, [Sess(u) EXCEPT !.rebroadcast_total = IF cnt > 0 THEN cnt ELSE 0])
    /\ reply' = R("ssched_count", u, "ok")
    /\ ButtonFrame /\ save_state

\* on_button "sschedule_done"
on_button_sschedule_done(u) ==
    /\ HasSession(u)
    /\ global_settings.scheduling_enabled
    /\ SetSess(u, [Sess(u) EXCEPT !.schedule_active = TRUE])
    /\ reply' = R("sschedule_done", u, "ok")
    /\ ButtonFrame /\ save_state

\* on_button "choose_chats"
on_button_choose_chats(u) ==
    /\ HasSession(u)
    /\ ButtonFrame
    /\ LET s == Sess(u) IN
       IF s.is_temp_granted /\ s.allowed_chats # {}
       THEN /\ SetSess(u, [s EXCEPT !.chosen_chats = s.allowed_chats])
            /\ reply' = R("choose_chats", u, "fixed_by_grant")
            /\ save_state
       ELSE IF list_authorized_chats(u) \ disabled_chats[u] = {}
       THEN /\ reply' = R("choose_chats", u, "none_available")
            /\ UNCHANGED <<sessions, disk>>
       ELSE /\ SetSess(u, [s EXCEPT !.stage = "choosing_chats"])
            /\ reply' = R("choose_chats", u, "picker")
            /\ save_state

\* the stage of the session is not looked at
ToggleOutcome_AnyStage(s, cid) ==
    IF s.is_temp_granted /\ cid \notin s.allowed_chats THEN "restricted" ELSE "ok"

\* on_button "toggle_chat:<cid>": ignored outside the picker, refused with the
\* restricted alert outside the grant, else the membership of cid is flipped
ToggleOutcome(s, cid) ==
    IF s.stage # "choosing_chats" THEN "ignored"
    ELSE IF s.is_temp_granted /\ cid \notin s.allowed_chats THEN "restricted"
    ELSE "ok"

\* on_button "toggle_chat:<cid>"
on_button_toggle_chat(u, cid) ==
    /\ HasSession(u)
    /\ ButtonFrame
    /\ reply' = RA("toggle_chat", u, ToggleOutcome(Sess(u), cid), <<cid>>)
    /\ IF ToggleOutcome(Sess(u), cid) = "ok"
       THEN /\ SetSess(u, [Sess(u) EXCEPT !.chosen_chats =
                              IF cid \in @ THEN @ \ {cid} ELSE @ \cup {cid}])
            /\ save_state
       ELSE UNCHANGED <<sessions, disk>>

\* on_button "select_all"
on_button_select_all(u) ==
    /\ HasSession(u)
    /\ Sess(u).stage = "choosing_chats"
    /\ LET s == Sess(u)
           source_ids == IF s.is_temp_granted THEN s.allowed_chats
                         ELSE list_authorized_chats(u)
       IN SetSess(u, [s EXCEPT !.chosen_chats = source_ids \ disabled_chats[u],
                               !.stage = "ready_options"])
    /\ reply' = R("select_all", u, "ok")
    /\ ButtonFrame /\ save_state

\* on_button "done_chats" and "back_main"
on_button_back_main(u) ==
    /\ HasSession(u)
    /\ SetSess(u, [Sess(u) EXCEPT !.stage = "ready_options"])
    /\ reply' = R("back_main", u, "ok")
    /\ ButtonFrame /\ save_state

\* ---------------------------------------------------------------- campaigns
CampaignModulus == 10000000

\* new_campaign_id: the next value of _campaign_seq, and the id returned for it
NextCampaignSeq(seq) == (seq + 1) % CampaignModulus
new_campaign_id(seq) == IF NextCampaignSeq(seq) = 0 THEN 1 ELSE NextCampaignSeq(seq)

RemoveAt(q, i) == SubSeq(q, 1, i - 1) \o SubSeq(q, i + 1, Len(q))

\* dict.setdefault that replaces an entry the dictionary already has
SetDefault_Overwrites(d, k, v) == Put(d, k, v)

SetDefault(d, k, v) == IF Has(d, k) THEN d ELSE Put(d, k, v)

\* ------------------------------------------------------- publish coroutines
\* A fan-out in flight: kind "publish" (a task of _publish_and_report) or "tick"
\* (a run of rebroadcast_job for timer job, using the throwaway Session tmp).  st[c] is the position of _safe_send_one for chat c.
NewTask(kind, u, shared, tmp, job, allow_schedule) ==
    [kind |-> kind, user |-> u, shared |-> shared, tmp |-> tmp, job |-> job,
     allow_schedule |-> allow_schedule, pc |-> "start",
     requested |-> {}, dropped |-> {}, targets |-> {},
     st |-> [c \in Chats |-> "none"], mids |-> [c \in Chats |-> 0],
     counts |-> [c \in Chats |-> <<0, 0>>], sem |-> 1,
     plist |-> [c \in Chats |-> <<>>],
     skip |-> {}, sent_count |-> 0, errors |-> {}]

TaskSess(t) == IF pubs[t].shared THEN sessions[pubs[t].user] ELSE pubs[t].tmp

\* the session's pin option survives the central switch
PublishOverrides_KeepsPin(u, s) ==
    LET s1 == IF s.is_temp_granted /\ s.allowed_chats # {}
              THEN [s EXCEPT !.chosen_chats = s.allowed_chats] ELSE s
    IN [s1 EXCEPT !.use_reactions =
                      IF ~global_settings.reactions_feature_enabled THEN FALSE ELSE @,
                  !.chosen_chats =
                      {c \in s1.chosen_chats : c \notin disabled_chats[u]
                                               /\ u \notin blocked_admins[c]}]

\* on_button "publish": the publish-time overrides and filters, the campaign id,
\* and the task that runs _publish_and_report
PublishOverrides(u, s) ==
    LET s1 == IF s.is_temp_granted /\ s.allowed_chats # {}
              THEN [s EXCEPT !.chosen_chats = s.allowed_chats] ELSE s
        s2 == [s1 EXCEPT !.use_reactions =
                             IF ~global_settings.reactions_feature_enabled THEN FALSE ELSE @,
                         !.pin_enabled =
                             IF ~global_settings.pin_feature_enabled THEN FALSE ELSE @]
    IN [s2 EXCEPT !.chosen_chats =
                      {c \in s1.chosen_chats : c \notin disabled_chats[u]
                                               /\ u \notin blocked_admins[c]}]

on_button_publish(u) ==
    /\ UNCHANGED <<settingsVars, grantVars, campaign_base_msg, message_to_campaign,
                   campaign_prompt_msgs, campaign_counters, reactions_counters, schedVars,
                   votes, envVars, restarts>>
    /\ HasSession(u)
    /\ Len(pubs) < MaxPubs
    /\ Sess(u).campaign_id = 0 => campaign_seq < MaxCampaigns
    /\ LET s == Sess(u)
           forced == IF s.is_temp_granted /\ s.allowed_chats # {}
                     THEN s.allowed_chats ELSE s.chosen_chats
           s3 == PublishOverrides(u, s)
           cid == IF s.campaign_id = 0 THEN new_campaign_id(campaign_seq) ELSE s.campaign_id
       IN
       IF global_settings.maintenance_mode
       THEN /\ reply' = R("publish", u, "maintenance")
            /\ UNCHANGED <<sessions, campaign_seq, campaign_messages, pubs, disk>>
       ELSE IF forced = {}
       THEN /\ reply' = R("publish", u, "no_destination")
            /\ UNCHANGED <<sessions, campaign_seq, campaign_messages, pubs, disk>>
       ELSE IF s3.chosen_chats = {}
       THEN /\ SetSess(u, s3)
            /\ reply' = R("publish", u, "no_destination_left")
            /\ UNCHANGED <<campaign_seq, campaign_messages, pubs, disk>>
       ELSE /\ SetSess(u, [s3 EXCEPT !.campaign_id = cid])
            /\ campaign_seq' = IF s.campaign_id = 0 THEN NextCampaignSeq(campaign_seq)
                               ELSE campaign_seq
            /\ campaign_messages' = IF s.campaign_id = 0
                                    THEN Put(campaign_messages, IK(cid), <<>>)
                                    ELSE campaign_messages
            /\ pubs' = Append(pubs, NewTask("publish", u, TRUE, Session(TRUE, 0), 0,
                                            global_settings.scheduling_enabled))
            /\ reply' = R("publish", u, "started")
            /\ save_state

\* the block list of the chat is not consulted
Eligible_IgnoresBlock(u, target, is_rebroadcast, lookup_ok) ==
    IF is_rebroadcast THEN target
    ELSE {c \in target : \/ (u \in TgAdmins(c) /\ c \in lookup_ok)
                         \/ _grant_active_for(u, c)}

\* publish_to_chats up to the fan-out: maintenance, disabled chats and, for a
\* first publish, the block and admin-or-grant check of every destination.
\* lookup_ok are the chats whose get_chat_member call answered.
Eligible(u, target, is_rebroadcast, lookup_ok) ==
    IF is_rebroadcast THEN target
    ELSE {c \in target : /\ u \notin blocked_admins[c]
                         /\ \/ (u \in TgAdmins(c) /\ c \in lookup_ok)
                            \/ _grant_active_for(u, c)}

\* no skip message is collected
SkipMsgs_None(u, target, is_rebroadcast, lookup_ok) == {}

SkipMsgs(u, target, is_rebroadcast, lookup_ok) ==
    IF is_rebroadcast THEN {}
    ELSE {<<"blocked", c>> : c \in {x \in target : u \in blocked_admins[x]}}
         \cup {<<"not_authorised", c>> :
                  c \in {x \in target : /\ u \notin blocked_admins[x]
                                        /\ x \notin Eligible(u, target, FALSE, lookup_ok)}}

\* publish_to_chats: asyncio.Semaphore(max(1, MAX_CONCURRENCY)), for the value mc
\* of MAX_CONCURRENCY
SemaphoreSize(mc) == IF mc > 1 THEN mc ELSE 1

\* the semaphore admits everybody
Admit_All(st, sem) == [c \in Chats |-> IF st[c] = "wait" THEN "send1" ELSE st[c]]

\* _safe_send_one, `async with sem`: while the semaphore has a free slot the next
\* waiting destination enters; the others stay suspended in acquire().  The slots
\* in use are the destinations that are sending or asleep before their retry.
RECURSIVE Admit(_, _)
Admit(st, sem) ==
    LET waiting == {c \in Chats : st[c] = "wait"}
        first == CHOOSE c \in waiting : \A d \in waiting : c <= d
        holding == {c \in Chats : st[c] \in {"send1", "backoff", "prompt", "edits"}}
    IN IF waiting = {} \/ Cardinality(holding) >= sem THEN st
       ELSE Admit([st EXCEPT ![first] = "send1"], sem)

publish_start(t, lookup_ok, mc) ==
    /\ t \in 1..Len(pubs)
    /\ pubs[t].pc = "start"
    /\ LET u == pubs[t].user
           s == TaskSess(t)
           reb == pubs[t].kind = "tick"
           target == s.chosen_chats \ disabled_chats[u]
           checked == Eligible(u, target, reb, lookup_ok)
       IN
       /\ lookup_ok \subseteq {c \in target : ~reb /\ u \in TgAdmins(c)
                                               /\ u \notin blocked_admins[c]}
       /\ IF global_settings.maintenance_mode
          THEN /\ lookup_ok = {}
               /\ pubs' = [pubs EXCEPT ![t].pc = "report",
                                       ![t].requested = s.chosen_chats,
                                       ![t].sent_count = 0,
                                       ![t].errors = {<<"maintenance", 0>>}]
          ELSE pubs' = [pubs EXCEPT ![t].pc = "fanout",
                                    ![t].requested = s.chosen_chats,
                                    ![t].dropped = s.chosen_chats \cap disabled_chats[u],
                                    ![t].targets = checked,
                                    ![t].skip = SkipMsgs(u, target, reb, lookup_ok),
                                    ![t].sem = SemaphoreSize(mc),
                                    ![t].st = Admit([c \in Chats |->
                                                        IF c \in checked THEN "wait"
                                                        ELSE "none"],
                                                    SemaphoreSize(mc))]
    /\ reply' = R("publish_start", pubs[t].user, "")
    /\ UNCHANGED <<settingsVars, grantVars, sessVars, campVars, schedVars, votes, envVars,
                   disk, restarts>>

\* the base message is overwritten by every send
AssignBase_Always(base, camp, c, mid) == IF camp # 0 THEN Put(base, TK(camp, c), mid) ELSE base

\* send_post_one_chat, the content part, inside _safe_send_one: the first attempt
\* (st = "send1") or the retry after a rate limit (st = "backoff").
\* outcome: "ok" (a message id), "retry_after", "fail" (timeout, network, other).
AssignBase(base, camp, c, mid) ==
    IF camp # 0 /\ ~Has(base, TK(camp, c)) THEN Put(base, TK(camp, c), mid) ELSE base

\* send_post_one_chat: like_count and dislike_count, read for the buttons from the
\* campaign's counter record, or from the message's record outside a campaign
CountsOf(camp, c, mid) ==
    LET rec == IF camp # 0
               THEN SetDefault(campaign_counters, IK(camp), ZeroCounter)[IK(camp)]
               ELSE SetDefault(reactions_counters, TK(c, mid), ZeroCounter)[TK(c, mid)]
    IN <<rec.like, rec.dislike>>

\* edit_message_reply_markup succeeded on every message of ps: each shows kb
EditKeyboards(shown, ps, kb) ==
    [p \in (DOMAIN shown) \cup ps |-> IF p \in ps THEN kb ELSE shown[p]]

\* every error of the first attempt is followed by a second attempt
AfterFailedSend_RetriesAnyError(st, outcome) == IF st = "send1" THEN "backoff" ELSE "fail"

\* _safe_send_one: where a destination stands after an attempt that raised; only
\* RetryAfter on the first attempt leads to the sleep and the second attempt
AfterFailedSend(st, outcome) ==
    IF outcome = "retry_after" /\ st = "send1" THEN "backoff" ELSE "fail"

send_content(t, c, outcome) ==
    /\ UNCHANGED <<settingsVars, grantVars, sessVars, schedVars, votes, restarts>>
    /\ t \in 1..Len(pubs)
    /\ pubs[t].pc = "fanout"
    /\ pubs[t].st[c] \in {"send1", "backoff"}
    /\ LET s == TaskSess(t)
           camp == s.campaign_id
           mid == next_mid
           react == global_settings.reactions_feature_enabled /\ s.use_reactions
       IN
       IF ~HasContent(s)
       THEN /\ outcome = "fail"
            /\ pubs' = [pubs EXCEPT ![t].st = Admit([@ EXCEPT ![c] = "fail"],
                                                    pubs[t].sem)]
            /\ UNCHANGED <<campVars, envVars, disk>>
       ELSE IF outcome = "ok"
       THEN /\ next_mid <= MaxMid
            /\ next_mid' = next_mid + 1
            /\ delivered' = delivered \cup {<<camp, c, mid>>}
            /\ campaign_base_msg' = AssignBase(campaign_base_msg, camp, c, mid)
            /\ campaign_counters' = IF react /\ camp # 0
                                    THEN SetDefault(campaign_counters, IK(camp), ZeroCounter)
                                    ELSE campaign_counters
            /\ reactions_counters' = IF react /\ camp = 0
                                     THEN SetDefault(reactions_counters, TK(c, mid), ZeroCounter)
                                     ELSE reactions_counters
            /\ pubs' = [pubs EXCEPT ![t].st = Admit([@ EXCEPT ![c] = IF react THEN "prompt"
                                                                      ELSE "ok"],
                                                    pubs[t].sem),
                                    ![t].mids[c] = mid,
                                    ![t].counts[c] = IF react THEN CountsOf(camp, c, mid)
                                                     ELSE @]
            /\ UNCHANGED <<now, keyboards, campaign_seq, campaign_messages,
                           message_to_campaign, campaign_prompt_msgs>>
            /\ IF react \/ campaign_base_msg' # campaign_base_msg
               THEN save_state ELSE UNCHANGED disk
       ELSE /\ outcome \in {"retry_after", "fail"}
            /\ pubs' = [pubs EXCEPT ![t].st =
                           Admit([@ EXCEPT ![c] = AfterFailedSend(@, outcome)], pubs[t].sem)]
            /\ UNCHANGED <<campVars, envVars, disk>>
    /\ reply' = R("send", pubs[t].user, outcome)

\* send_post_one_chat, the reaction prompt part.  timedout: wait_for cancelled the
\* coroutine (the content is out, the result is lost).  alive: the tracked prompts
\* of this chat whose keyboard edit succeeded.  sendok: the new prompt was sent.
PromptsOf(camp) == IF Has(campaign_prompt_msgs, IK(camp))
                   THEN campaign_prompt_msgs[IK(camp)] ELSE <<>>
SeqSet(q) == {q[i] : i \in 1..Len(q)}
KeepPrompts(lst, c, alive) ==
    LET keep(p) == p[1] # c \/ p \in alive IN SelectSeq(lst, keep)

\* send_post_one_chat in a rebroadcast of a campaign that tracks a prompt of this
\* chat: the loop over the tracked prompts starts on the list that
\* campaign_prompt_msgs holds now, and is suspended in the edit of that prompt
prompt_read(t, c) ==
    /\ t \in 1..Len(pubs)
    /\ pubs[t].pc = "fanout"
    /\ pubs[t].st[c] = "prompt"
    /\ pubs[t].kind = "tick" /\ TaskSess(t).campaign_id # 0
    /\ \E p \in SeqSet(PromptsOf(TaskSess(t).campaign_id)) : p[1] = c
    /\ campaign_prompt_msgs' =
           SetDefault(campaign_prompt_msgs, IK(TaskSess(t).campaign_id), <<>>)
    /\ pubs' = [pubs EXCEPT ![t].st[c] = "edits",
                            ![t].plist[c] = PromptsOf(TaskSess(t).campaign_id)]
    /\ reply' = R("prompt_read", pubs[t].user, "")
    /\ UNCHANGED <<settingsVars, grantVars, sessVars, campaign_seq, campaign_messages,
                   campaign_base_msg, message_to_campaign, campaign_counters,
                   reactions_counters, schedVars, votes, envVars, disk, restarts>>

prompt_phase(t, c, timedout, alive, sendok) ==
    /\ UNCHANGED <<settingsVars, grantVars, sessVars, schedVars, votes, restarts>>
    /\ t \in 1..Len(pubs)
    /\ pubs[t].pc = "fanout"
    /\ \/ pubs[t].st[c] = "edits"
       \/ /\ pubs[t].st[c] = "prompt"
          /\ ~(/\ pubs[t].kind = "tick" /\ TaskSess(t).campaign_id # 0
               /\ \E p \in SeqSet(PromptsOf(TaskSess(t).campaign_id)) : p[1] = c)
    /\ LET s == TaskSess(t)
           camp == s.campaign_id
           reb == pubs[t].kind = "tick"
           mid == pubs[t].mids[c]
           base == IF camp # 0 THEN campaign_base_msg[TK(camp, c)] ELSE mid
           reconcile == camp # 0 /\ reb
           lst == IF pubs[t].st[c] = "edits" THEN pubs[t].plist[c] ELSE PromptsOf(camp)
           mine == {p \in SeqSet(lst) : p[1] = c}
           lst1 == IF reconcile THEN KeepPrompts(lst, c, alive) ELSE lst
           ensure == IF reconcile THEN alive = {} ELSE TRUE
           pm == <<c, next_mid>>
       IN
       /\ alive \subseteq (IF reconcile /\ ~timedout THEN mine ELSE {})
       /\ sendok => (ensure /\ ~timedout /\ next_mid <= MaxMid)
       /\ IF timedout
          THEN /\ pubs' = [pubs EXCEPT ![t].st = Admit([@ EXCEPT ![c] = "fail"],
                                                       pubs[t].sem)]
               /\ UNCHANGED <<campVars, envVars, disk>>
          ELSE /\ pubs' = [pubs EXCEPT ![t].st = Admit([@ EXCEPT ![c] = "ok"],
                                                       pubs[t].sem)]
               /\ IF sendok
                  THEN /\ next_mid' = next_mid + 1
                       /\ keyboards' = EditKeyboards(keyboards, alive \cup {pm},
                                                     pubs[t].counts[c])
                       /\ message_to_campaign' =
                              IF camp # 0 THEN Put(message_to_campaign, TK(c, base), camp)
                              ELSE message_to_campaign
                       /\ campaign_prompt_msgs' =
                              IF camp # 0
                              THEN Put(campaign_prompt_msgs, IK(camp), Append(lst1, pm))
                              ELSE campaign_prompt_msgs
                       /\ UNCHANGED <<now, delivered, campaign_seq, campaign_messages,
                                      campaign_base_msg, campaign_counters, reactions_counters>>
                       /\ save_state
                  ELSE /\ campaign_prompt_msgs' =
                              IF reconcile
                              THEN Put(campaign_prompt_msgs, IK(camp), lst1)
                              ELSE campaign_prompt_msgs
                       /\ keyboards' = EditKeyboards(keyboards, alive, pubs[t].counts[c])
                       /\ UNCHANGED <<now, next_mid, delivered, campaign_seq, campaign_messages,
                                      campaign_base_msg, message_to_campaign,
                                      campaign_counters, reactions_counters, disk>>
    /\ reply' = RA("prompt", pubs[t].user, IF timedout THEN "timeout" ELSE "done",
                   <<TaskSess(t).campaign_id, c, alive, sendok>>)

\* publish_to_chats after gather: the count, the error strings, save_state
SentPairs(t) == {<<c, pubs[t].mids[c]>> : c \in {x \in Chats : pubs[t].st[x] = "ok"}}

SendRunning(t) ==
    {c \in Chats : pubs[t].st[c] \in {"wait", "send1", "backoff", "prompt", "edits"}}

publish_collect(t) ==
    /\ t \in 1..Len(pubs)
    /\ pubs[t].pc = "fanout"
    /\ SendRunning(t) = {}
    /\ pubs' = [pubs EXCEPT
                   ![t].pc = "report",
                   ![t].sent_count = Cardinality({c \in Chats : pubs[t].st[c] = "ok"}),
                   ![t].errors = {<<"send_failed", c>> : c \in {x \in Chats : pubs[t].st[x] = "fail"}}
                                 \cup pubs[t].skip]
    /\ reply' = R("publish_collect", pubs[t].user, "")
    /\ UNCHANGED <<settingsVars, grantVars, sessVars, campVars, schedVars, votes, envVars,
                   restarts>>
    /\ save_state

\* ---------------------------------------------------------------- scheduler
JobName(u, camp) == <<"rebroadcast", u, camp>>

\* schedule_rebroadcast: the payload, a repeating timer, the registry entry (which
\* refers to the same payload object as the timer), save_state
Payload(u, s, total_times) ==
    [text |-> s.text, media_list |-> s.media_list, single_attachment |-> s.single_attachment,
     use_reactions |-> s.use_reactions, chosen_chats |-> s.chosen_chats, owner_id |-> u,
     campaign_id |-> s.campaign_id, total |-> total_times, left |-> total_times]

NewJob(u, s, total_times) ==
    [name |-> JobName(u, s.campaign_id), data |-> Payload(u, s, total_times),
     live |-> TRUE, running |-> FALSE, ticks |-> 0, ended |-> "no"]

\* the schedule starts whatever the publish delivered
WillSchedule_IgnoresSent(t) ==
    pubs[t].allow_schedule /\ TaskSess(t).schedule_active

\* _publish_and_report after publish_to_chats returned: the rebroadcast timer, the
\* grant, the session, save_state
WillSchedule(t) ==
    pubs[t].sent_count > 0 /\ pubs[t].allow_schedule /\ TaskSess(t).schedule_active

\* the grant is left as it is
MarkUsed_Never(grants, u) == grants

MarkUsed(grants, u) ==
    IF Has(grants, u) THEN [grants EXCEPT ![u].used = TRUE] ELSE grants

_publish_and_report(t) ==
    /\ t \in 1..Len(pubs)
    /\ pubs[t].kind = "publish"
    /\ pubs[t].pc = "report"
    /\ LET u == pubs[t].user
           s == TaskSess(t)
       IN
       /\ IF WillSchedule(t)
          THEN /\ Len(jobs) < MaxJobs
               /\ jobs' = Append(jobs, NewJob(u, s, s.rebroadcast_total))
               /\ active_rebroadcasts' = Put(active_rebroadcasts, JobName(u, s.campaign_id),
                                             [job |-> Len(jobs) + 1])
          ELSE UNCHANGED schedVars
       /\ temp_grants' = MarkUsed(temp_grants, u)
       /\ sessions' = Del(sessions, u)
       /\ reply' = RA("publish_result", u,
                      IF pubs[t].sent_count > 0 THEN "published" ELSE "nothing_sent",
                      <<s.campaign_id, SentPairs(t)>>)
    /\ pubs' = RemoveAt(Detached(pubs[t].user), t)
    /\ UNCHANGED <<settingsVars, start_tokens, campVars, votes, envVars, restarts>>
    /\ save_state

\* rebroadcast_job up to publish_to_chats: the timer fires (one run of a job at a
\* time) and the temporary Session is built from the payload
TickSession(data) ==
    [Session(data.use_reactions, 0) EXCEPT
        !.text = data.text, !.media_list = data.media_list,
        !.single_attachment = data.single_attachment,
        !.chosen_chats = data.chosen_chats, !.campaign_id = data.campaign_id]

rebroadcast_job_begin(j) ==
    /\ j \in 1..Len(jobs)
    /\ jobs[j].live
    /\ ~jobs[j].running
    /\ Len(pubs) < MaxPubs
    /\ jobs' = [jobs EXCEPT ![j].running = TRUE, ![j].ticks = @ + 1]
    /\ pubs' = Append(pubs, NewTask("tick", jobs[j].data.owner_id, FALSE,
                                    TickSession(jobs[j].data), j, FALSE))
    /\ reply' = R("tick_begin", jobs[j].data.owner_id, "")
    /\ UNCHANGED <<settingsVars, grantVars, sessVars, campVars, active_rebroadcasts, votes,
                   envVars, disk, restarts>>

\* the countdown ends one tick late
Exhausted_Late(left) == left < 0

\* the schedule ends one tick early
Exhausted_Early(left) == left <= 1

\* rebroadcast_job: the test that ends the schedule
Exhausted(left) == left <= 0

\* rebroadcast_job after publish_to_chats: keyboards synchronised, the countdown,
\* removal of the timer and of the registry entry at zero, save_state
\* _sync_campaign_keyboards: prompt_list, looked up under the int key and then
\* under the string key
SyncPromptList(camp) ==
    IF PromptsOf(camp) # <<>> THEN PromptsOf(camp)
    ELSE IF Has(campaign_prompt_msgs, SK(camp)) THEN campaign_prompt_msgs[SK(camp)]
    ELSE <<>>

\* a tick lowers total together with left
AfterTick_LowersTotal(data) == [data EXCEPT !.left = @ - 1, !.total = @ - 1]

\* rebroadcast_job: data["left"] -= 1
AfterTick(data) == [data EXCEPT !.left = @ - 1]

rebroadcast_job_end(t) ==
    /\ t \in 1..Len(pubs)
    /\ pubs[t].kind = "tick"
    /\ pubs[t].pc = "report"
    /\ LET j == pubs[t].job
           camp == pubs[t].tmp.campaign_id
           left == AfterTick(jobs[j].data).left
       IN
       /\ \E synced \in SUBSET SeqSet(SyncPromptList(camp)) :
             keyboards' = IF camp # 0
                          THEN EditKeyboards(keyboards, synced, CountsOf(camp, 0, 0))
                          ELSE keyboards
       /\ campaign_counters' = IF camp # 0
                               THEN SetDefault(campaign_counters, IK(camp), ZeroCounter)
                               ELSE campaign_counters
       /\ jobs' = [jobs EXCEPT ![j].data = AfterTick(@),
                               ![j].running = FALSE,
                               ![j].live = IF Exhausted(left) THEN FALSE ELSE @,
                               ![j].ended = IF Exhausted(left) /\ jobs[j].live
                                            THEN "exhausted" ELSE @]
       /\ active_rebroadcasts' = IF Exhausted(left) THEN Del(active_rebroadcasts, jobs[j].name)
                                 ELSE active_rebroadcasts
       /\ reply' = RA("tick_end", pubs[t].user, "",
                      <<camp, SentPairs(t), {c \in Chats : pubs[t].st[c] = "fail"}>>)
    /\ pubs' = RemoveAt(pubs, t)
    /\ UNCHANGED <<settingsVars, grantVars, sessVars, campaign_seq, campaign_messages,
                   campaign_base_msg, message_to_campaign, campaign_prompt_msgs,
                   reactions_counters, votes, now, next_mid, delivered, restarts>>
    /\ save_state

\* the registry entry is left in place
StopRegistry_Keeps(reg, name) == reg

\* stop_rebroadcast: del active_rebroadcasts[name]
StopRegistry(reg, name) == Del(reg, name)

\* handle_campaign_buttons, stop_rebroadcast:<user>:<campaign>
stop_rebroadcast(u, camp) ==
    /\ UNCHANGED <<settingsVars, grantVars, sessVars, campVars, pubs, votes, envVars, restarts>>
    /\ LET name == JobName(u, camp)
           found == {j \in 1..Len(jobs) : jobs[j].name = name /\ jobs[j].live}
       IN
       IF found = {}
       THEN /\ reply' = R("stop_rebroadcast", u, "none")
            /\ UNCHANGED <<schedVars, disk>>
       ELSE /\ jobs' = [j \in 1..Len(jobs) |->
                           IF j \in found
                           THEN [jobs[j] EXCEPT !.live = FALSE, !.ended = "stopped"]
                           ELSE jobs[j]]
            /\ active_rebroadcasts' = StopRegistry(active_rebroadcasts, name)
            /\ reply' = R("stop_rebroadcast", u, "stopped")
            /\ save_state

\* handle_control_buttons, panel:sched_stop:<target>, the target a chat or 0 for
\* "all": the timers whose payload has the target among its destinations are
\* removed, every rebroadcast entry of the registry is deleted, save_state
PanelSchedStop(u, target) ==
    /\ UNCHANGED <<settingsVars, grantVars, sessVars, campVars, pubs, votes, envVars, restarts>>
    /\ LET hit == {j \in 1..Len(jobs) :
                      /\ jobs[j].live
                      /\ (target = 0 \/ target \in jobs[j].data.chosen_chats)}
       IN
       /\ jobs' = [j \in 1..Len(jobs) |->
                       IF j \in hit
                       THEN [jobs[j] EXCEPT !.live = FALSE, !.ended = "stopped"]
                       ELSE jobs[j]]
       /\ active_rebroadcasts' =
              [k \in {n \in DOMAIN active_rebroadcasts : n[1] # "rebroadcast"} |->
                  active_rebroadcasts[k]]
       /\ reply' = R("sched_stop", u, IF hit = {} THEN "none" ELSE "stopped")
    /\ save_state

\* ---------------------------------------------------------------- reactions
\* webhook_handler: every update is processed in a task of its own
vote_dispatch(u, action, chat_id, mid) ==
    /\ Len(votes) < MaxVotes
    /\ votes' = Append(votes, [user |-> u, action |-> action, chat_id |-> chat_id,
                               mid |-> mid, pc |-> "queued", campaign_id |-> 0,
                               result |-> "none", cnt |-> <<0, 0>>, tot |-> <<0, 0>>,
                               todo |-> <<>>])
    /\ reply' = R("vote_dispatch", u, "")
    /\ UNCHANGED <<settingsVars, grantVars, sessVars, campVars, schedVars, pubs, envVars,
                   disk, restarts>>

\* the voter check finds only voters who pressed like
HasVoted_OnlyLikes(rec, u) == Has(rec.voters, IK(u)) /\ rec.voters[IK(u)] = "like"

\* the voter check never finds the voter
HasVoted_Never(rec, u) == FALSE

\* one vote on a counter record: refused for a recorded voter, else counted
HasVoted(rec, u) == Has(rec.voters, IK(u))

\* a dislike is counted as a like
CountVote_AlwaysLike(rec, u, action) ==
    [like |-> rec.like + 1, dislike |-> rec.dislike, voters |-> Put(rec.voters, IK(u), action)]

CountVote(rec, u, action) ==
    [like |-> rec.like + (IF action = "like" THEN 1 ELSE 0),
     dislike |-> rec.dislike + (IF action = "like" THEN 0 ELSE 1),
     voters |-> Put(rec.voters, IK(u), action)]

\* handle_reactions from its start to its first await: the campaign of the target,
\* the counter record, the voter check and the count
handle_reactions(v) ==
    /\ v \in 1..Len(votes)
    /\ votes[v].pc = "queued"
    /\ LET u == votes[v].user
           key == TK(votes[v].chat_id, votes[v].mid)
           camp == IF Has(message_to_campaign, key) THEN message_to_campaign[key] ELSE 0
           cc == SetDefault(campaign_counters, IK(camp), ZeroCounter)
           rc == SetDefault(reactions_counters, key, ZeroCounter)
           rec == IF camp # 0 THEN cc[IK(camp)] ELSE rc[key]
           counted == CountVote(rec, u, votes[v].action)
       IN
       /\ IF HasVoted(rec, u)
          THEN /\ campaign_counters' = IF camp # 0 THEN cc ELSE campaign_counters
               /\ reactions_counters' = IF camp # 0 THEN reactions_counters ELSE rc
               /\ votes' = RemoveAt(votes, v)
               /\ reply' = RA("vote", u, "already", <<votes[v].action, camp>>)
          ELSE /\ campaign_counters' = IF camp # 0 THEN Put(cc, IK(camp), counted)
                                       ELSE campaign_counters
               /\ reactions_counters' = IF camp # 0 THEN reactions_counters
                                        ELSE Put(rc, key, counted)
               /\ votes' = [votes EXCEPT ![v].pc = "after", ![v].campaign_id = camp,
                                         ![v].result = "counted",
                                         ![v].cnt = <<counted.like, counted.dislike>>]
               /\ reply' = RA("vote", u, "counted", <<votes[v].action, camp>>)
    /\ UNCHANGED <<settingsVars, grantVars, sessVars, campaign_seq, campaign_messages,
                   campaign_base_msg, message_to_campaign, campaign_prompt_msgs, schedVars,
                   pubs, envVars, disk, restarts>>

\* handle_reactions of a campaign vote, from the edit of the pressed message p (a
\* tracked prompt of the chat, or a message no longer tracked, written with id 0;
\* ok: the edit succeeded) to the first await of _sync_campaign_keyboards, which
\* has read the totals and the prompt list
handle_reactions_edit(v, p, ok) ==
    /\ v \in 1..Len(votes)
    /\ votes[v].pc = "after"
    /\ votes[v].campaign_id # 0
    /\ p[1] = votes[v].chat_id
    /\ LET camp == votes[v].campaign_id
           cc == SetDefault(campaign_counters, IK(camp), ZeroCounter)
           tracked == {q \in SeqSet(SyncPromptList(camp)) : q[1] = votes[v].chat_id}
       IN /\ p \in (IF tracked = {} THEN {<<votes[v].chat_id, 0>>} ELSE tracked)
          /\ keyboards' = IF ok /\ p[2] # 0
                          THEN EditKeyboards(keyboards, {p}, votes[v].cnt)
                          ELSE keyboards
          /\ campaign_counters' = cc
          /\ votes' = [votes EXCEPT ![v].pc = "sync",
                                    ![v].tot = <<cc[IK(camp)].like, cc[IK(camp)].dislike>>,
                                    ![v].todo = SyncPromptList(camp)]
    /\ reply' = R("vote_edit", votes[v].user, IF ok THEN "ok" ELSE "fail")
    /\ UNCHANGED <<settingsVars, grantVars, sessVars, campaign_seq, campaign_messages,
                   campaign_base_msg, message_to_campaign, campaign_prompt_msgs,
                   reactions_counters, schedVars, pubs, now, next_mid, delivered, disk,
                   restarts>>

\* _sync_campaign_keyboards, one turn of its loop over prompt_list: the edit of the
\* next prompt with the totals read at the start (ok: the edit succeeded)
_sync_campaign_keyboards(v, ok) ==
    /\ v \in 1..Len(votes)
    /\ votes[v].pc = "sync"
    /\ votes[v].todo # <<>>
    /\ keyboards' = IF ok THEN EditKeyboards(keyboards, {Head(votes[v].todo)}, votes[v].tot)
                    ELSE keyboards
    /\ votes' = [votes EXCEPT ![v].todo = Tail(@)]
    /\ reply' = R("vote_sync", votes[v].user, IF ok THEN "ok" ELSE "fail")
    /\ UNCHANGED <<settingsVars, grantVars, sessVars, campVars, schedVars, pubs, now,
                   next_mid, delivered, disk, restarts>>

\* handle_reactions after the keyboards: the callback answer, the thank-you
\* message, save_state (a vote outside a campaign edits its own message only)
handle_reactions_finish(v) ==
    /\ v \in 1..Len(votes)
    /\ \/ votes[v].pc = "after" /\ votes[v].campaign_id = 0
       \/ votes[v].pc = "sync" /\ votes[v].todo = <<>>
    /\ LET camp == votes[v].campaign_id IN
       campaign_counters' = IF camp # 0
                            THEN SetDefault(campaign_counters, IK(camp), ZeroCounter)
                            ELSE campaign_counters
    /\ votes' = RemoveAt(votes, v)
    /\ reply' = R("vote_finish", votes[v].user, "")
    /\ UNCHANGED <<settingsVars, grantVars, sessVars, campaign_seq, campaign_messages,
                   campaign_base_msg, message_to_campaign, campaign_prompt_msgs,
                   reactions_counters, schedVars, pubs, envVars, restarts>>
    /\ save_state

\* handle_reactions when query.answer raises an error other than BadRequest: the
\* handler ends there, without the thank-you message and without save_state
handle_reactions_abort(v) ==
    /\ v \in 1..Len(votes)
    /\ \/ votes[v].pc = "after" /\ votes[v].campaign_id = 0
       \/ votes[v].pc = "sync" /\ votes[v].todo = <<>>
    /\ votes' = RemoveAt(votes, v)
    /\ reply' = R("vote_abort", votes[v].user, "")
    /\ UNCHANGED <<settingsVars, grantVars, sessVars, campVars, schedVars, pubs, envVars,
                   disk, restarts>>

\* ------------------------------------------------- registration and restart
\* cmd_register: the chat's administrators are fetched into the cache
cmd_register(c) ==
    /\ known_chats_admins' = [known_chats_admins EXCEPT ![c] = @ \cup TgAdmins(c)]
    /\ reply' = R("register", 0, "ok")
    /\ UNCHANGED <<global_settings, disabled_chats, blocked_admins, grantVars, sessVars,
                   campVars, schedVars, pubs, votes, envVars, restarts>>
    /\ save_state

DefaultSettings ==
    [maintenance_mode |-> FALSE, reactions_feature_enabled |-> TRUE,
     pin_feature_enabled |-> TRUE, scheduling_enabled |-> TRUE,
     rebroadcast_total |-> DefaultRebroadcastTotal]

FileExists == "missing" \notin DOMAIN disk

\* load_state: raw.get(bucket, {}) for every bucket of _PERSIST_BUCKETS
LoadBucket(bucket) ==
    IF FileExists /\ bucket \in DOMAIN disk THEN disk[bucket] ELSE EmptyMap

LoadSettings ==
    IF ~FileExists THEN DefaultSettings
    ELSE [maintenance_mode |-> FALSE,
          reactions_feature_enabled |-> disk.global_settings.reactions_feature_enabled,
          pin_feature_enabled |-> disk.global_settings.pin_feature_enabled,
          scheduling_enabled |-> disk.global_settings.scheduling_enabled,
          rebroadcast_total |-> disk.global_settings.rebroadcast_total]

\* _startup step 5: one repeating timer per entry of the loaded registry
RegistryOrder(reg) ==
    CHOOSE q \in [1..Cardinality(DOMAIN reg) -> DOMAIN reg] :
        \A n \in DOMAIN reg : \E i \in 1..Cardinality(DOMAIN reg) : q[i] = n

RearmJobs(reg) ==
    [i \in 1..Cardinality(DOMAIN reg) |->
        [name |-> RegistryOrder(reg)[i], data |-> reg[RegistryOrder(reg)[i]].payload,
         live |-> TRUE, running |-> FALSE, ticks |-> 0, ended |-> "no"]]

RearmRegistry(reg) ==
    [n \in DOMAIN reg |->
        [job |-> CHOOSE i \in 1..Cardinality(DOMAIN reg) : RegistryOrder(reg)[i] = n]]

\* the process stops (coroutines, timers and memory are gone) and starts again:
\* module-level defaults, load_state, _startup's re-arming of the registry
Restart ==
    /\ restarts < MaxRestarts
    /\ restarts' = restarts + 1
    /\ global_settings' = LoadSettings
    /\ disabled_chats' = [u \in Users |-> {}]
    /\ blocked_admins' = [c \in Chats |-> {}]
    /\ known_chats_admins' = [c \in Chats |-> {}]
    /\ temp_grants' = EmptyMap
    /\ start_tokens' = EmptyMap
    /\ sessions' = EmptyMap
    /\ campaign_seq' = 0
    /\ campaign_messages' = LoadBucket("campaign_messages")
    /\ campaign_base_msg' = LoadBucket("campaign_base_msg")
    /\ message_to_campaign' = LoadBucket("message_to_campaign")
    /\ campaign_prompt_msgs' = LoadBucket("campaign_prompt_msgs")
    /\ campaign_counters' = LoadBucket("campaign_counters")
    /\ reactions_counters' = LoadBucket("reactions_counters")
    /\ active_rebroadcasts' = RearmRegistry(LoadBucket("active_rebroadcasts"))
    /\ jobs' = RearmJobs(LoadBucket("active_rebroadcasts"))
    /\ pubs' = <<>>
    /\ votes' = <<>>
    /\ reply' = R("restart", 0, "")
    /\ UNCHANGED <<envVars, disk>>

\* ------------------------------------------------------------ initial state
\* the module-level state of a fresh process, but for the cache of chat admins,
\* the sessions, the last reply and the state file
InitMemoryBut ==
    /\ global_settings = DefaultSettings
    /\ disabled_chats = [u \in Users |-> {}]
    /\ blocked_admins = [c \in Chats |-> {}]
    /\ temp_grants = EmptyMap
    /\ start_tokens = EmptyMap
    /\ campaign_seq = 0
    /\ campaign_messages = EmptyMap
    /\ campaign_base_msg = EmptyMap
    /\ message_to_campaign = EmptyMap
    /\ campaign_prompt_msgs = EmptyMap
    /\ campaign_counters = EmptyMap
    /\ reactions_counters = EmptyMap
    /\ active_rebroadcasts = EmptyMap
    /\ jobs = <<>>
    /\ pubs = <<>>
    /\ votes = <<>>
    /\ now = 0
    /\ next_mid = 1
    /\ delivered = {}
    /\ keyboards = EmptyMap
    /\ restarts = 0

\* the module-level state of a fresh process without a state file
InitMemory ==
    /\ InitMemoryBut
    /\ sessions = EmptyMap
    /\ reply = R("init", 0, "")
    /\ disk = NoFile

Init == InitMemory /\ known_chats_admins = [c \in Chats |-> {}]

\* the same process after /register was sent in every chat
InitRegistered == InitMemory /\ known_chats_admins = [c \in Chats |-> TgAdmins(c)]

\* ------------------------------------------------------------ next-state
PromptStep(t, c) ==
    \E timedout \in BOOLEAN, sendok \in BOOLEAN :
        \E alive \in SUBSET SeqSet(pubs[t].plist[c]) :
            prompt_phase(t, c, timedout, alive, sendok)

\* the steps of a fan-out in flight, in a process started with MAX_CONCURRENCY = mc
FanOutWith(mc) ==
    \E t \in 1..Len(pubs) :
        \/ \E lookup_ok \in SUBSET Chats : publish_start(t, lookup_ok, mc)
        \/ \E c \in Chats, outcome \in {"ok", "retry_after", "fail"} : send_content(t, c, outcome)
        \/ \E c \in Chats : prompt_read(t, c)
        \/ \E c \in Chats : PromptStep(t, c)
        \/ publish_collect(t)

FanOut == FanOutWith(MAX_CONCURRENCY)

\* every handler, timer and coroutine step of the program
Next ==
    \/ AdvanceTime
    \/ \E c \in Chats : cmd_register(c)
    \/ \E u \in Users : PanelMaintToggle(u)
    \/ \E u \in Users : PanelSchedToggle(u)
    \/ \E u \in Users, c \in Chats : PanelToggleChat(u, c)
    \/ \E u \in Users, c \in Chats, uid \in Users : PermToggle(u, c, uid)
    \/ \E granter \in Users, target \in Users, chat \in Chats : cmd_temp_ok(granter, target, chat)
    \/ \E u \in Users, tok \in 1..MaxTokens : start_with_token(u, tok)
    \/ \E u \in Users : start_publishing_keyword(u)
    \/ \E u \in Users, kind \in {"text", "photo", "document"} : handle_admin_input(u, kind)
    \/ \E u \in Users : on_button_done(u)
    \/ \E u \in Users : on_button_back_to_collect(u)
    \/ \E u \in Users : on_button_clear(u)
    \/ \E u \in Users : on_button_cancel(u)
    \/ \E u \in Users : on_button_toggle_reactions(u)
    \/ \E u \in Users : on_button_toggle_pin(u)
    \/ \E u \in Users, cnt \in 0..MaxTotal : on_button_ssched_count(u, cnt)
    \/ \E u \in Users : on_button_sschedule_done(u)
    \/ \E u \in Users : on_button_choose_chats(u)
    \/ \E u \in Users, cid \in Chats : on_button_toggle_chat(u, cid)
    \/ \E u \in Users : on_button_select_all(u)
    \/ \E u \in Users : on_button_back_main(u)
    \/ \E u \in Users : on_button_publish(u)
    \/ FanOut
    \/ \E t \in 1..Len(pubs) : _publish_and_report(t)
    \/ \E j \in 1..Len(jobs) : rebroadcast_job_begin(j)
    \/ \E t \in 1..Len(pubs) : rebroadcast_job_end(t)
    \/ \E u \in Users, camp \in 1..MaxCampaigns : stop_rebroadcast(u, camp)
    \/ \E u \in Users, action \in Actions, chat_id \in Chats, mid \in 1..MaxMid :
           vote_dispatch(u, action, chat_id, mid)
    \/ \E v \in 1..Len(votes) : handle_reactions(v)
    \/ \E v \in 1..Len(votes), p \in Chats \X (0..MaxMid), ok \in BOOLEAN :
           handle_reactions_edit(v, p, ok)
    \/ \E v \in 1..Len(votes), ok \in BOOLEAN : _sync_campaign_keyboards(v, ok)
    \/ \E v \in 1..Len(votes) : handle_reactions_finish(v)
    \/ \E v \in 1..Len(votes) : handle_reactions_abort(v)
    \/ Restart

Spec == Init /\ [][Next]_vars

\* the users who administer no chat
Guests == {u \in Users : \A c \in Chats : u \notin TgAdmins(c)}

\* grants: /ok, the deep link, the keyword, content, publish and its report
NextGrant ==
    \/ AdvanceTime
    \/ \E target \in Guests, chat \in Chats : cmd_temp_ok(1, target, chat)
    \/ \E u \in Guests, tok \in 1..MaxTokens : start_with_token(u, tok)
    \/ \E u \in Guests : start_publishing_keyword(u)
    \/ \E u \in Guests : handle_admin_input(u, "text")
    \/ \E u \in Guests : Len(pubs) < MaxFanOuts /\ on_button_publish(u)
    \/ FanOut
    \/ \E t \in 1..Len(pubs) : _publish_and_report(t)

SpecGrant == InitRegistered /\ [][NextGrant]_vars

\* ------------------------------------------------------------------- votes
\* The process after user 1 published campaign 1 with reactions into both chats:
\* content 1 and 2, prompts 3 and 4, the session closed.
InitVote ==
    /\ global_settings = DefaultSettings
    /\ disabled_chats = [u \in Users |-> {}]
    /\ blocked_admins = [c \in Chats |-> {}]
    /\ known_chats_admins = [c \in Chats |-> TgAdmins(c)]
    /\ temp_grants = EmptyMap
    /\ start_tokens = EmptyMap
    /\ sessions = EmptyMap
    /\ campaign_seq = 1
    /\ campaign_messages = Put(EmptyMap, IK(1), <<>>)
    /\ campaign_base_msg = Put(Put(EmptyMap, TK(1, 1), 1), TK(1, 2), 2)
    /\ message_to_campaign = Put(Put(EmptyMap, TK(1, 1), 1), TK(2, 2), 1)
    /\ campaign_prompt_msgs = Put(EmptyMap, IK(1), <<<<1, 3>>, <<2, 4>>>>)
    /\ campaign_counters = Put(EmptyMap, IK(1), ZeroCounter)
    /\ reactions_counters = EmptyMap
    /\ active_rebroadcasts = EmptyMap
    /\ jobs = <<>>
    /\ pubs = <<>>
    /\ votes = <<>>
    /\ now = 0
    /\ next_mid = 5
    /\ delivered = {<<1, 1, 1>>, <<1, 2, 2>>}
    /\ keyboards = [p \in {<<1, 3>>, <<2, 4>>} |-> <<0, 0>>]
    /\ reply = R("publish_result", 1, "published")
    /\ disk = build_persist_snapshot
    /\ restarts = 0

\* the buttons a user can press: the campaign's prompt in either chat, and the
\* buttons of a message that belongs to no campaign
VoteTargets == {<<1, 1>>, <<2, 2>>, <<1, 5>>}

NextVote ==
    \/ \E u \in Users, action \in Actions, target \in VoteTargets :
           vote_dispatch(u, action, target[1], target[2])
    \/ \E v \in 1..Len(votes) : handle_reactions(v)
    \/ \E v \in 1..Len(votes), p \in Chats \X (0..MaxMid) : handle_reactions_edit(v, p, TRUE)
    \/ \E v \in 1..Len(votes) : _sync_campaign_keyboards(v, TRUE)
    \/ \E v \in 1..Len(votes) : handle_reactions_finish(v)

SpecVote == InitVote /\ [][NextVote]_vars

\* C1: once user U has a vote recorded in campaign C, a later vote by U on any
\* message of C, like or dislike, leaves like, dislike and voters of C unchanged.
C1_RepeatedVoteChangesNothing ==
    [][\A v \in 1..Len(votes) :
          LET key == TK(votes[v].chat_id, votes[v].mid)
              k == IF key \in DOMAIN message_to_campaign
                   THEN IK(message_to_campaign[key]) ELSE IK(0)
          IN (/\ votes[v].pc = "queued"
              /\ k \in DOMAIN campaign_counters
              /\ IK(votes[v].user) \in DOMAIN campaign_counters[k].voters
              /\ handle_reactions(v))
             => /\ k \in DOMAIN campaign_counters'
                /\ campaign_counters'[k] = campaign_counters[k]]_vars

\* a vote by a user whose other action is already recorded in the campaign was
\* handled, pressed in the other chat of the campaign
C1_Witness ==
    /\ reply.op = "vote"
    /\ reply.text = "already"
    /\ reply.arg[2] = 1
    /\ IK(reply.user) \in DOMAIN campaign_counters[IK(1)].voters
    /\ campaign_counters[IK(1)].voters[IK(reply.user)] # reply.arg[1]
    /\ campaign_counters[IK(1)].like + campaign_counters[IK(1)].dislike = 1

\* C2: of several concurrent handlers of one user's votes on one target at most
\* one passes the voter check, so every counter record counts one vote per voter.
C2_OneVotePerVoter ==
    /\ \A k \in DOMAIN campaign_counters :
          campaign_counters[k].like + campaign_counters[k].dislike
              = Cardinality(DOMAIN campaign_counters[k].voters)
    /\ \A k \in DOMAIN reactions_counters :
          reactions_counters[k].like + reactions_counters[k].dislike
              = Cardinality(DOMAIN reactions_counters[k].voters)

\* two handlers of the same user for the same target are in flight: one has
\* counted its vote and is suspended, the other has not run yet
C2_Witness ==
    \E v \in 1..Len(votes), w \in 1..Len(votes) :
        /\ v # w
        /\ votes[v].user = votes[w].user
        /\ votes[v].chat_id = votes[w].chat_id /\ votes[v].mid = votes[w].mid
        /\ votes[v].pc = "after"
        /\ votes[w].pc = "queued"

\* ------------------------------------------------------------------ grants
\* C6: after a user without admin rights published successfully under a grant,
\* _user_has_active_grant is false for that user until a new grant is issued, and a
\* keyword start by a user without an active grant is denied and creates no session.
C6_GrantSingleUse ==
    [][\A u \in Guests :
          /\ (reply'.op = "publish_result" /\ reply'.user = u /\ reply'.text = "published")
                => ~_user_has_active_grant(u)'
          /\ (~_user_has_active_grant(u) /\ _user_has_active_grant(u)')
                => (reply'.op = "grant" /\ reply'.user = u)
          /\ (~_user_has_active_grant(u) /\ reply'.op = "keyword" /\ reply'.user = u)
                => (reply'.text = "denied" /\ sessions' = sessions)]_vars

\* a user whose grant was consumed by a publish that delivered, and has not
\* expired, asked for a session with the keyword and was denied
C6_Witness ==
    /\ reply.op = "keyword"
    /\ reply.text = "denied"
    /\ reply.user \in Guests
    /\ Has(temp_grants, reply.user)
    /\ temp_grants[reply.user].used
    /\ now <= temp_grants[reply.user].expires
    /\ \E d \in delivered : d[2] = temp_grants[reply.user].chat_id

\* C7: a grant is marked used only by a publish that succeeded: a publish that
\* delivered to no destination leaves the flag false.
C7_UsedOnlyBySuccessfulPublish ==
    [][\A u \in Users :
          (/\ Has(temp_grants, u) /\ ~temp_grants[u].used
           /\ Has(temp_grants', u) /\ temp_grants'[u].used)
          => (reply'.op = "publish_result" /\ reply'.user = u /\ reply'.text = "published")]_vars

\* C8: a grant that is used or past its expiry is inactive for the user and for
\* every chat, and a session created while the grant is in that state is not
\* temp-granted and has no allowed chats.
GrantDead(u) == Has(temp_grants, u) /\ (temp_grants[u].used \/ now > temp_grants[u].expires)

ReadySession(use_reactions, schedule_active, total) ==
    [Session(use_reactions, total) EXCEPT
        !.stage = "ready_options", !.text = 1, !.chosen_chats = Chats,
        !.schedule_active = schedule_active]

\* user 1, an admin of every chat, has sent a text, chosen every chat and is back
\* at the options, with the reactions on or off
InitPublish ==
    /\ InitMemoryBut
    /\ known_chats_admins = [c \in Chats |-> TgAdmins(c)]
    /\ \E r \in BOOLEAN : sessions = Put(EmptyMap, 1, ReadySession(r, FALSE, DefaultRebroadcastTotal))
    /\ reply = R("select_all", 1, "ok")
    /\ disk = build_persist_snapshot

NextPublish ==
    \/ Len(pubs) < MaxFanOuts /\ on_button_publish(1)
    \/ PanelToggleChat(1, 1)
    \/ PermToggle(1, 2, 1)
    \/ PanelMaintToggle(1)
    \/ FanOut
    \/ \E t \in 1..Len(pubs) : _publish_and_report(t)

SpecPublish == InitPublish /\ [][NextPublish]_vars

FailedOf(task) == {c \in task.targets : task.st[c] = "fail"}
SucceededOf(task) == {c \in task.targets : task.st[c] = "ok"}

C10_DeliveredPairsRecorded ==
    reply.op \in {"publish_result", "tick_end"}
    => LET k == IK(reply.arg[1]) IN
       /\ k \in DOMAIN campaign_messages
       /\ reply.arg[2] \subseteq SeqSet(campaign_messages[k])
       /\ Cardinality(SeqSet(campaign_messages[k])) = Len(campaign_messages[k])

\* ---------------------------------------------------------------- schedule
\* user 1 is ready to publish to every chat with the rebroadcast switched on,
\* for 1..MaxTotal repetitions, with the reactions on or off
InitSched ==
    /\ InitMemoryBut
    /\ known_chats_admins = [c \in Chats |-> TgAdmins(c)]
    /\ \E r \in BOOLEAN, n \in 1..MaxTotal :
           sessions = Put(EmptyMap, 1, ReadySession(r, TRUE, n))
    /\ reply = R("sschedule_done", 1, "ok")
    /\ disk = build_persist_snapshot

NextSched ==
    \/ Len(pubs) < MaxFanOuts /\ on_button_publish(1)
    \/ FanOut
    \/ \E t \in 1..Len(pubs) : _publish_and_report(t)
    \/ \E j \in 1..Len(jobs) : Len(pubs) < MaxFanOuts /\ rebroadcast_job_begin(j)
    \/ \E t \in 1..Len(pubs) : rebroadcast_job_end(t)
    \/ \E camp \in 1..MaxCampaigns : stop_rebroadcast(1, camp)
    \/ PanelMaintToggle(1)

SpecSched == InitSched /\ [][NextSched]_vars

\* the same, and the process may be restarted
NextRestart == NextSched \/ Restart

SpecRestart == InitSched /\ [][NextRestart]_vars

\* C3: a job created with total = N >= 1 runs N ticks and no more: left counts the
\* ticks still to come, and when it reaches zero the timer is cancelled and the
\* registry entry is removed.
C3_ExactlyTotalTicks ==
    \A j \in 1..Len(jobs) :
        jobs[j].data.total >= 1
        => /\ jobs[j].ticks <= jobs[j].data.total
           /\ jobs[j].data.left
                 = jobs[j].data.total - (jobs[j].ticks - (IF jobs[j].running THEN 1 ELSE 0))
           /\ (jobs[j].data.left <= 0)
                 => /\ ~jobs[j].live
                    /\ jobs[j].ticks = jobs[j].data.total
                    /\ ~(\E n \in DOMAIN active_rebroadcasts : active_rebroadcasts[n].job = j)
           /\ (jobs[j].live /\ jobs[j].data.left > 0 /\ ~jobs[j].running)
                 => \E n \in DOMAIN active_rebroadcasts : active_rebroadcasts[n].job = j

\* a job with total 2 has finished its second tick: cancelled, out of the registry
C3_Witness ==
    \E j \in 1..Len(jobs) :
        /\ jobs[j].data.total = 2
        /\ jobs[j].ticks = 2
        /\ ~jobs[j].running
        /\ ~jobs[j].live
        /\ jobs[j].ended = "exhausted"
        /\ active_rebroadcasts = EmptyMap

\* C4: every job in the registry when the state is saved is in the state file, and
\* after a restart it is in the registry again with a live timer and its left count.
C4_RegistryPersistedAndRearmed ==
    [][/\ disk' # disk
          => \A n \in DOMAIN active_rebroadcasts' :
                /\ "active_rebroadcasts" \in DOMAIN disk'
                /\ n \in DOMAIN disk'.active_rebroadcasts
       /\ restarts' # restarts
          => \A n \in DOMAIN active_rebroadcasts :
                /\ n \in DOMAIN active_rebroadcasts'
                /\ \E j \in 1..Len(jobs') :
                      /\ jobs'[j].name = n
                      /\ jobs'[j].live
                      /\ jobs'[j].data.left = jobs[active_rebroadcasts[n].job].data.left]_vars

\* C5: once campaign_base_msg[(C,Ch)] is assigned it keeps that message id in
\* every later state of the process, across any number of rebroadcast ticks.
C5_BaseMessageStable ==
    [][\A k \in DOMAIN campaign_base_msg :
          /\ k \in DOMAIN campaign_base_msg'
          /\ campaign_base_msg'[k] = campaign_base_msg[k]]_vars

\* a tick delivered a later message of the campaign into a chat whose base
\* message is the one of the first publish
C5_Witness ==
    \E d \in delivered :
        /\ TK(d[1], d[2]) \in DOMAIN campaign_base_msg
        /\ campaign_base_msg[TK(d[1], d[2])] < d[3]
        /\ \E j \in 1..Len(jobs) : jobs[j].ticks >= 1 /\ jobs[j].data.campaign_id = d[1]

\* ------------------------------------------------------- claims C11 to C20
\* C11: save_state followed by load_state is the identity on the persisted
\* buckets: a restart from a state file that holds the snapshot of the current
\* memory restores every bucket with equal content and keys of the same type.
C11_SaveLoadIdentity ==
    [][(restarts' = restarts + 1 /\ FileExists /\ disk = build_persist_snapshot)
          => /\ campaign_messages' = campaign_messages
             /\ campaign_base_msg' = campaign_base_msg
             /\ message_to_campaign' = message_to_campaign
             /\ campaign_prompt_msgs' = campaign_prompt_msgs
             /\ campaign_counters' = campaign_counters
             /\ reactions_counters' = reactions_counters
             /\ temp_grants' = temp_grants]_vars

\* ------------------------------------------------------------------ access
\* an admin with a session ready for every chat and a guest who is granted chat 1,
\* while the panel blocks either of them in chat 1 or disables chat 2 for the admin
NextAccess ==
    \/ AdvanceTime
    \/ cmd_temp_ok(1, 2, 1)
    \/ start_publishing_keyword(2)
    \/ handle_admin_input(2, "text")
    \/ \E u \in Users : Len(pubs) < MaxFanOuts /\ on_button_publish(u)
    \/ \E uid \in Users : PermToggle(1, 1, uid)
    \/ PanelToggleChat(1, 2)
    \/ FanOut
    \/ \E t \in 1..Len(pubs) : _publish_and_report(t)

\* the process after /register in every chat, with the reactions feature switched
\* off in the panel, the given sessions in memory and the state saved
InitPrepared(sess, last) ==
    /\ global_settings = [DefaultSettings EXCEPT !.reactions_feature_enabled = FALSE]
    /\ disabled_chats = [u \in Users |-> {}]
    /\ blocked_admins = [c \in Chats |-> {}]
    /\ known_chats_admins = [c \in Chats |-> TgAdmins(c)]
    /\ temp_grants = EmptyMap
    /\ start_tokens = EmptyMap
    /\ sessions = sess
    /\ campaign_seq = 0
    /\ campaign_messages = EmptyMap
    /\ campaign_base_msg = EmptyMap
    /\ message_to_campaign = EmptyMap
    /\ campaign_prompt_msgs = EmptyMap
    /\ campaign_counters = EmptyMap
    /\ reactions_counters = EmptyMap
    /\ active_rebroadcasts = EmptyMap
    /\ jobs = <<>>
    /\ pubs = <<>>
    /\ votes = <<>>
    /\ now = 0
    /\ next_mid = 1
    /\ delivered = {}
    /\ keyboards = EmptyMap
    /\ restarts = 0
    /\ reply = R(last, 1, "ok")
    /\ disk = build_persist_snapshot

\* user 1, an admin of every chat, is ready to publish to every chat
InitAccess ==
    InitPrepared(Put(EmptyMap, 1, ReadySession(TRUE, FALSE, DefaultRebroadcastTotal)),
                 "select_all")

SpecAccess == InitAccess /\ [][NextAccess]_vars

\* C12: in a first publish by user U a chat is made a destination only if, when
\* publish_to_chats checks it, U is not blocked there, has not disabled it and is
\* an admin of it or holds an unused, unexpired grant for exactly that chat; and
\* content is sent only to the destinations that passed.
C12_SendOnlyWhereAllowed ==
    [][/\ \A t \in 1..Len(pubs) :
             (/\ Len(pubs') = Len(pubs)
              /\ pubs[t].kind = "publish"
              /\ pubs[t].pc = "start"
              /\ pubs'[t].pc = "fanout")
             => \A c \in pubs'[t].targets :
                   /\ pubs[t].user \notin blocked_admins[c]
                   /\ c \notin disabled_chats[pubs[t].user]
                   /\ \/ pubs[t].user \in TgAdmins(c)
                      \/ /\ Has(temp_grants, pubs[t].user)
                         /\ ~temp_grants[pubs[t].user].used
                         /\ temp_grants[pubs[t].user].chat_id = c
                         /\ now <= temp_grants[pubs[t].user].expires
       /\ \A d \in delivered' \ delivered :
             \E t \in 1..Len(pubs) :
                /\ pubs[t].pc = "fanout"
                /\ d[2] \in pubs[t].targets
                /\ pubs[t].st[d[2]] \in {"send1", "backoff"}]_vars

\* the guest's publish passed the check on the grant for chat 1 alone and the
\* content was delivered there
C12_Witness ==
    \E t \in 1..Len(pubs) :
        /\ pubs[t].kind = "publish"
        /\ pubs[t].user = 2
        /\ pubs[t].targets = {1}
        /\ pubs[t].st[1] = "ok"
        /\ <<TaskSess(t).campaign_id, 1, pubs[t].mids[1]>> \in delivered

\* ------------------------------------------------------- ticks and access
\* a scheduled campaign of user 1 while the panel blocks them in chat 1 or
\* disables chat 2 for them
NextTick ==
    \/ Len(pubs) < MaxFanOuts /\ on_button_publish(1)
    \/ FanOut
    \/ \E t \in 1..Len(pubs) : _publish_and_report(t)
    \/ \E j \in 1..Len(jobs) : Len(pubs) < MaxFanOuts /\ rebroadcast_job_begin(j)
    \/ \E t \in 1..Len(pubs) : rebroadcast_job_end(t)
    \/ PermToggle(1, 1, 1)
    \/ PanelToggleChat(1, 2)

SpecTick == InitSched /\ [][NextTick]_vars

\* C13: in a rebroadcast tick a chat that the owner has disabled, or in which the
\* owner is blocked, when the tick selects its destinations gets no content send.
C13_TickRespectsDisabledAndBlocked ==
    [][\A t \in 1..Len(pubs) :
          (/\ Len(pubs') = Len(pubs)
           /\ pubs[t].kind = "tick"
           /\ pubs[t].pc = "start"
           /\ pubs'[t].pc = "fanout")
          => \A c \in pubs'[t].targets :
                /\ c \notin disabled_chats[pubs[t].user]
                /\ pubs[t].user \notin blocked_admins[c]]_vars

\* C14: a stop that finds the job cancels every live timer of that name and
\* removes its registry entry; a stop that finds none changes neither timers nor
\* registry; and a stopped job stays stopped: the tick that was running finishes
\* without bringing the entry back and no later tick of it starts.
C14_StopIsFinal ==
    [][/\ (reply'.op = "stop_rebroadcast" /\ reply'.text = "stopped")
          => /\ \E j \in 1..Len(jobs) : jobs[j].live /\ ~jobs'[j].live
             /\ \A j \in 1..Len(jobs) :
                   (jobs[j].live /\ ~jobs'[j].live)
                   => /\ jobs[j].name \notin DOMAIN active_rebroadcasts'
                      /\ \A k \in 1..Len(jobs') :
                            jobs'[k].name = jobs[j].name => ~jobs'[k].live
       /\ (reply'.op = "stop_rebroadcast" /\ reply'.text = "none")
          => /\ jobs' = jobs
             /\ active_rebroadcasts' = active_rebroadcasts
       /\ \A j \in 1..Len(jobs) :
             jobs[j].ended = "stopped"
             => /\ jobs'[j].ended = "stopped"
                /\ ~jobs'[j].live
                /\ jobs'[j].ticks = jobs[j].ticks
                /\ jobs[j].name \notin DOMAIN active_rebroadcasts']_vars

\* a job was stopped while one of its ticks was executing, and that tick has
\* finished: the job is not live and its name is not in the registry
C14_Witness ==
    \E j \in 1..Len(jobs) :
        /\ jobs[j].ended = "stopped"
        /\ jobs[j].ticks >= 1
        /\ ~jobs[j].running
        /\ jobs[j].data.left = jobs[j].data.total - jobs[j].ticks
        /\ reply.op = "tick_end"
        /\ ~jobs[j].live
        /\ jobs[j].name \notin DOMAIN active_rebroadcasts

\* -------------------------------------------------------- repeated publish
\* user 1 is ready to publish to chat 1 with the rebroadcast switched on (one
\* repetition) and the reactions feature off, and may press publish again while
\* the first publish is still running
InitTwice ==
    InitPrepared(Put(EmptyMap, 1, [ReadySession(TRUE, TRUE, 1) EXCEPT !.chosen_chats = {1}]),
                 "sschedule_done")

NextTwice ==
    \/ on_button_publish(1)
    \/ FanOut
    \/ \E t \in 1..Len(pubs) : _publish_and_report(t)
    \/ \E j \in 1..Len(jobs) : rebroadcast_job_begin(j)
    \/ \E t \in 1..Len(pubs) : rebroadcast_job_end(t)
    \/ Restart

SpecTwice == InitTwice /\ [][NextTwice]_vars

\* C15: at every moment at most one live timer carries a given job name.
C15_OneTimerPerName ==
    \A j, k \in 1..Len(jobs) :
        (jobs[j].live /\ jobs[k].live /\ jobs[j].name = jobs[k].name) => j = k

\* ------------------------------------------------------ the schedule gate
\* user 1 is ready to publish to chat 1, with the rebroadcast switched on or not,
\* while the panel switches the scheduling service off and on
InitGate ==
    \E a \in BOOLEAN :
        InitPrepared(Put(EmptyMap, 1, [ReadySession(TRUE, a, 1) EXCEPT !.chosen_chats = {1}]),
                     "back_main")

NextGate ==
    \/ Len(pubs) < MaxFanOuts /\ on_button_publish(1)
    \/ PanelSchedToggle(1)
    \/ FanOut
    \/ \E t \in 1..Len(pubs) : _publish_and_report(t)
    \/ \E j \in 1..Len(jobs) : Len(pubs) < MaxFanOuts /\ rebroadcast_job_begin(j)
    \/ \E t \in 1..Len(pubs) : rebroadcast_job_end(t)

SpecGate == InitGate /\ [][NextGate]_vars

\* C16: a timer or a registry entry is created only by the report of a publish
\* that delivered to at least one destination, for a session whose schedule is
\* active, when scheduling_enabled was true as publish was pressed.
C16_ScheduledOnlyAfterDelivery ==
    [][/\ (Len(pubs') = Len(pubs) + 1 /\ pubs'[Len(pubs')].kind = "publish")
          => pubs'[Len(pubs')].allow_schedule = global_settings.scheduling_enabled
       /\ (Len(jobs') > Len(jobs) \/ ~(DOMAIN active_rebroadcasts' \subseteq DOMAIN active_rebroadcasts))
          => \E t \in 1..Len(pubs) :
                /\ pubs[t].kind = "publish"
                /\ pubs[t].pc = "report"
                /\ pubs[t].allow_schedule
                /\ TaskSess(t).schedule_active
                /\ pubs[t].sent_count > 0
                /\ \E d \in delivered : d[1] = TaskSess(t).campaign_id
                /\ Len(jobs') = Len(jobs) + 1
                /\ jobs'[Len(jobs')].name
                      = JobName(pubs[t].user, TaskSess(t).campaign_id)]_vars

\* a publish pressed while scheduling was enabled delivered and registered its job
C16_Witness ==
    /\ reply.op = "publish_result"
    /\ reply.text = "published"
    /\ Len(jobs) = 1
    /\ jobs[1].live
    /\ jobs[1].name \in DOMAIN active_rebroadcasts

\* C17: a tick completes whatever its sends did: every destination was attempted,
\* left goes down by exactly one, and the job stays armed and registered when the
\* new left is positive and nobody stopped it; a timer is only ever dead because
\* left reached zero or because of a stop.
C17_FailedTickKeepsSchedule ==
    [][/\ reply'.op = "tick_end"
          => \E j \in 1..Len(jobs) :
                /\ jobs[j].running /\ ~jobs'[j].running
                /\ jobs'[j].data.left = jobs[j].data.left - 1
                /\ \E t \in 1..Len(pubs) :
                      /\ pubs[t].kind = "tick" /\ pubs[t].job = j
                      /\ \A c \in pubs[t].targets : pubs[t].st[c] \in {"ok", "fail"}
                /\ (jobs'[j].data.left > 0 /\ jobs[j].live)
                      => /\ jobs'[j].live
                         /\ jobs[j].name \in DOMAIN active_rebroadcasts'
                /\ \A k \in 1..Len(jobs) : k # j => jobs'[k] = jobs[k]
       /\ \A j \in 1..Len(jobs') :
             ~jobs'[j].live
             => \/ jobs'[j].ended = "stopped"
                \/ jobs'[j].ended = "exhausted" /\ jobs'[j].data.left <= 0]_vars

\* a tick whose sends failed in every destination has completed, and its job,
\* with one repetition left, is still armed and registered
C17_Witness ==
    /\ reply.op = "tick_end"
    /\ reply.arg[2] = {}
    /\ reply.arg[3] = Chats
    /\ \E j \in 1..Len(jobs) :
          /\ jobs[j].ticks = 1
          /\ jobs[j].data.left = 1
          /\ jobs[j].live
          /\ jobs[j].name \in DOMAIN active_rebroadcasts

\* ---------------------------------------------------------------- sessions
\* an admin and a guest with a grant build and clear their sessions, and the
\* guest publishes
NextSession ==
    \/ \E target \in Users, c \in Chats : cmd_temp_ok(1, target, c)
    \/ \E u \in Users : start_publishing_keyword(u)
    \/ \E u \in Users : handle_admin_input(u, "text")
    \/ \E u \in Users : on_button_done(u)
    \/ \E u \in Users : on_button_choose_chats(u)
    \/ \E u \in Users, cid \in Chats : on_button_toggle_chat(u, cid)
    \/ \E u \in Users : on_button_select_all(u)
    \/ \E u \in Users : on_button_back_main(u)
    \/ \E u \in Users : on_button_clear(u)
    \/ \E u \in Guests : Len(pubs) < MaxFanOuts /\ on_button_publish(u)
    \/ FanOut
    \/ \E t \in 1..Len(pubs) : _publish_and_report(t)

InitSession == InitPrepared(EmptyMap, "init")

SpecSession == InitSession /\ [][NextSession]_vars

\* C18: clear leaves the user with the fresh session (first-input stage, no text,
\* no media, no attachment, no destination, no campaign), and a second clear right
\* after the first leaves that session as it is.
C18_ClearIdempotent ==
    [][reply'.op = "clear"
          => /\ Has(sessions', reply'.user)
             /\ sessions'[reply'.user].stage = "waiting_first_input"
             /\ sessions'[reply'.user].text = 0
             /\ sessions'[reply'.user].media_list = 0
             /\ sessions'[reply'.user].single_attachment = "none"
             /\ sessions'[reply'.user].chosen_chats = {}
             /\ sessions'[reply'.user].campaign_id = 0
             /\ (reply.op = "clear" /\ reply.user = reply'.user)
                   => sessions'[reply'.user] = sessions[reply'.user]]_vars

\* the guest cleared a session that had a destination fixed by the grant: the
\* session they hold is the fresh one
C18_Witness ==
    /\ reply.op = "clear"
    /\ reply.user = 2
    /\ Has(temp_grants, 2)
    /\ Has(sessions, 2)
    /\ sessions[2] = Session(TRUE, global_settings.rebroadcast_total)

\* C19: in every reachable state the destinations chosen in a temp-granted
\* session are among the chats its grant allows.
C19_ChosenWithinAllowed ==
    \A u \in DOMAIN sessions :
        sessions[u].is_temp_granted => sessions[u].chosen_chats \subseteq sessions[u].allowed_chats

\* the guest, past the options stage, opened the destination picker: the
\* destination stays the chat of the grant
C19_Witness ==
    /\ reply.op = "choose_chats"
    /\ reply.user = 2
    /\ Has(sessions, 2)
    /\ sessions[2].is_temp_granted
    /\ sessions[2].stage = "ready_options"
    /\ sessions[2].allowed_chats # {}
    /\ sessions[2].chosen_chats = sessions[2].allowed_chats

NextStage ==
    \/ \E c \in Chats : cmd_temp_ok(1, 2, c)
    \/ \E u \in Users : start_publishing_keyword(u)
    \/ \E u \in Users : handle_admin_input(u, "text")
    \/ \E u \in Users : on_button_done(u)
    \/ \E u \in Users : on_button_back_to_collect(u)
    \/ \E u \in Users : on_button_choose_chats(u)
    \/ \E u \in Users : on_button_select_all(u)
    \/ \E u \in Users : on_button_back_main(u)
    \/ \E u \in Users : on_button_clear(u)
    \/ \E u \in Users : on_button_cancel(u)

SpecStage == InitSession /\ [][NextStage]_vars

\* C21: the stage of every session is one of the four stages; a stage change of a
\* session that is kept either moves forward in the order waiting_first_input <
\* collecting < ready_options < choosing_chats or is a button press that goes back
\* to collecting or to ready_options; a session is in waiting_first_input after a
\* step that touched it only when create or clear replaced it.
C21_StageOrder ==
    [][LET StageRank(stage) ==
               CASE stage = "waiting_first_input" -> 1
                 [] stage = "collecting" -> 2
                 [] stage = "ready_options" -> 3
                 [] stage = "choosing_chats" -> 4
                 [] OTHER -> 0
           Replaces(r) ==
               r.op = "clear" \/ (r.op \in {"keyword", "token"} /\ r.text = "session")
       IN
       /\ \A u \in DOMAIN sessions' : StageRank(sessions'[u].stage) > 0
       /\ \A u \in DOMAIN sessions \cap DOMAIN sessions' :
             (sessions'[u].stage # sessions[u].stage /\ ~(Replaces(reply') /\ reply'.user = u))
                => \/ StageRank(sessions'[u].stage) > StageRank(sessions[u].stage)
                   \/ /\ sessions'[u].stage \in {"collecting", "ready_options"}
                      /\ reply'.op \in {"back_to_collect", "done", "back_main", "select_all"}
                      /\ reply'.user = u
       /\ \A u \in DOMAIN sessions' :
             (sessions'[u].stage = "waiting_first_input"
                /\ (u \notin DOMAIN sessions \/ sessions'[u] # sessions[u]))
                => Replaces(reply') /\ reply'.user = u]_vars

\* user 1 selected every destination in the picker, which took the session back
\* to the options, and from there went back to collecting with the content kept
C21_Witness ==
    /\ reply = R("back_to_collect", 1, "ok")
    /\ Has(sessions, 1)
    /\ sessions[1].stage = "collecting"
    /\ sessions[1].text = 1
    /\ sessions[1].chosen_chats = Chats

\* --------------------------------------------------------------- overrides
\* user 1 holds a ready session; the central switches for reactions and pinning,
\* the disabled list and the block list change between publish presses
NextOverride ==
    \/ PanelReactToggle(1)
    \/ PanelPinToggle(1)
    \/ on_button_toggle_reactions(1)
    \/ on_button_toggle_pin(1)
    \/ \E c \in Chats : PanelToggleChat(1, c)
    \/ \E c \in Chats : PermToggle(1, c, 1)
    \/ on_button_choose_chats(1)
    \/ on_button_select_all(1)
    \/ Len(pubs) < MaxFanOuts /\ on_button_publish(1)

InitOverride ==
    InitPrepared(Put(EmptyMap, 1, ReadySession(TRUE, FALSE, 0)), "select_all")

SpecOverride == InitOverride /\ [][NextOverride]_vars

C23_PromptsShowTotals ==
    votes = <<>>
       => \A p \in SeqSet(PromptsOf(1)) :
             /\ p \in DOMAIN keyboards
             /\ keyboards[p] = <<campaign_counters[IK(1)].like,
                                 campaign_counters[IK(1)].dislike>>

\* C24: a session has a campaign id only once a publish of it has delivered to at
\* least one destination, and a publish that has delivered nowhere has assigned no
\* campaign id and created no campaign entry.
C24_CampaignIdOnlyAfterDelivery ==
    /\ \A u \in DOMAIN sessions :
          sessions[u].campaign_id # 0
             => \E d \in delivered : d[1] = sessions[u].campaign_id
    /\ (reply.op = "publish_result" /\ reply.text = "nothing_sent")
          => /\ reply.arg[1] = 0
             /\ \A k \in DOMAIN campaign_messages : \E d \in delivered : IK(d[1]) = k

\* ------------------------------------------------------ vote side effects
\* user 1 likes and user 2 dislikes, on the campaign's prompts and on a message of
\* no campaign; keyboard edits fail or succeed, and the callback answer may raise
NextEffects ==
    \/ \E u \in Users, target \in VoteTargets :
           vote_dispatch(u, IF u = 1 THEN "like" ELSE "dislike", target[1], target[2])
    \/ \E v \in 1..Len(votes) : handle_reactions(v)
    \/ \E v \in 1..Len(votes), p \in Chats \X (0..MaxMid), ok \in BOOLEAN :
           handle_reactions_edit(v, p, ok)
    \/ \E v \in 1..Len(votes), ok \in BOOLEAN : _sync_campaign_keyboards(v, ok)
    \/ \E v \in 1..Len(votes) : handle_reactions_finish(v)
    \/ \E v \in 1..Len(votes) : handle_reactions_abort(v)

SpecEffects == InitVote /\ [][NextEffects]_vars

\* C25: a vote that was counted stays counted through everything its handler does
\* afterwards: the edit of the pressed message, the keyboard synchronisation, the
\* callback answer and the thank-you message, failed or not, leave every counter
\* record as it is, with the voter's entry and the increment of that vote in it.
C25_VoteSurvivesSideEffects ==
    [][/\ reply'.op \in {"vote_edit", "vote_sync", "vote_finish", "vote_abort"}
          => /\ campaign_counters' = campaign_counters
             /\ reactions_counters' = reactions_counters
       /\ \A v \in 1..Len(votes) :
             votes[v].result = "counted"
             => LET k == IF votes[v].campaign_id # 0 THEN IK(votes[v].campaign_id)
                         ELSE TK(votes[v].chat_id, votes[v].mid)
                    d == IF votes[v].campaign_id # 0 THEN campaign_counters'
                         ELSE reactions_counters'
                IN /\ k \in DOMAIN d
                   /\ IK(votes[v].user) \in DOMAIN d[k].voters
                   /\ d[k].voters[IK(votes[v].user)] = votes[v].action
                   /\ d[k].like + d[k].dislike = Cardinality(DOMAIN d[k].voters)]_vars

\* a campaign vote was counted, every keyboard edit of its handler failed and the
\* callback answer raised: the prompts still show 0/0, the file was not written,
\* and the vote is in the counter record
C25_Witness ==
    /\ reply.op = "vote_abort"
    /\ votes = <<>>
    /\ \A p \in DOMAIN keyboards : keyboards[p] = <<0, 0>>
    /\ disk = NoFile \/ disk # build_persist_snapshot
    /\ campaign_counters[IK(1)].like = 1
    /\ campaign_counters[IK(1)].dislike = 0
    /\ campaign_counters[IK(1)].voters = Put(EmptyMap, IK(reply.user), "like")

\* C26: within one fan-out a destination is attempted at most twice: its first
\* attempt ends in success, in the backoff before the one retry (only when it
\* raised the rate-limit error) or in abandonment (any other error); the attempt
\* after the backoff ends in success or abandonment, whatever it raised; an
\* abandoned or served destination is not attempted again.
C26_AtMostOneRetry ==
    [][Len(pubs') = Len(pubs)
          => \A t \in 1..Len(pubs), c \in Chats :
                LET a == pubs[t].st[c]
                    b == pubs'[t].st[c]
                IN /\ (a \in {"send1", "backoff"} /\ reply'.op = "send" /\ a # b)
                         => /\ reply'.text = "ok" => b \in {"prompt", "ok"}
                            /\ reply'.text = "fail" => b = "fail"
                            /\ reply'.text = "retry_after"
                                  => b = (IF a = "send1" THEN "backoff" ELSE "fail")
                   /\ b = "backoff" => a \in {"send1", "backoff"}
                   /\ (b = "backoff" /\ a = "send1")
                         => reply'.op = "send" /\ reply'.text = "retry_after"
                   /\ b = "send1" => a \in {"none", "wait", "send1"}
                   /\ a \in {"ok", "fail"} => b = a
                   /\ a \in {"prompt", "edits"} => b \in {"prompt", "edits", "ok", "fail"}]_vars

\* the retry of chat 1 after its backoff raised the rate-limit error again and the
\* destination was abandoned, while chat 2 was served
C26_Witness ==
    /\ reply.op = "send"
    /\ reply.text = "retry_after"
    /\ Len(pubs) = 1
    /\ pubs[1].st[1] = "fail"
    /\ pubs[1].st[2] = "ok"

\* -------------------------------------------------------------- concurrency
\* one publish of user 1 to both chats, in processes started with MAX_CONCURRENCY
\* 0, 1 or 2; the event loop runs every coroutine that can continue
NextLimit ==
    \/ Len(pubs) < MaxFanOuts /\ on_button_publish(1)
    \/ \E mc \in 0..NumChats : FanOutWith(mc)
    \/ \E t \in 1..Len(pubs) : _publish_and_report(t)

SpecLimit ==
    /\ InitPublish
    /\ [][NextLimit]_vars
    /\ WF_vars(\E mc \in 0..NumChats : FanOutWith(mc))
    /\ WF_vars(\E t \in 1..Len(pubs) : _publish_and_report(t))

\* C27: in a fan-out the destinations whose send is in progress, the ones asleep
\* before their retry included, are never more than the semaphore admits, which
\* is at least one; and a destination that waits for the semaphore is eventually
\* attempted.
C27_BoundedConcurrency ==
    /\ [](\A t \in 1..Len(pubs) :
             /\ pubs[t].sem >= 1
             /\ Cardinality({c \in Chats :
                                pubs[t].st[c] \in {"send1", "backoff", "prompt", "edits"}})
                   <= pubs[t].sem)
    /\ \A c \in Chats :
          (Len(pubs) = 1 /\ pubs[1].st[c] = "wait")
             ~> (Len(pubs) = 1 /\ pubs[1].st[c] = "send1")

\* with one slot, chat 1 sleeps before its retry while chat 2 waits its turn
C27_Witness ==
    /\ Len(pubs) = 1
    /\ pubs[1].sem = 1
    /\ pubs[1].st[1] = "backoff"
    /\ pubs[1].st[2] = "wait"

\* C28: when a rebroadcast tick with reactions has reconciled the prompts of a
\* destination chat, every tracked prompt of that chat whose keyboard edit failed
\* is no longer in campaign_prompt_msgs, every one whose edit succeeded still is,
\* the tracked prompts of the other chats are the same as before, and a new
\* prompt of the chat was added exactly when none remained valid.
C28_PromptReconcile ==
    [][(reply'.op = "prompt" /\ reply'.text = "done" /\ reply'.arg[1] # 0
          /\ \E t \in 1..Len(pubs) :
                /\ pubs[t].kind = "tick"
                /\ pubs[t].st[reply'.arg[2]] \in {"prompt", "edits"})
          => LET camp == reply'.arg[1]
                 c == reply'.arg[2]
                 alive == reply'.arg[3]
                 sendok == reply'.arg[4]
                 before == SeqSet(PromptsOf(camp))
                 after == IF IK(camp) \in DOMAIN campaign_prompt_msgs'
                          THEN SeqSet(campaign_prompt_msgs'[IK(camp)]) ELSE {}
             IN /\ \A p \in before : (p[1] = c /\ p \notin alive) => p \notin after
                /\ \A p \in alive : p \in after
                /\ {p \in after : p[1] # c} = {p \in before : p[1] # c}
                /\ (\E p \in after \ before : p[1] = c) <=> (alive = {} /\ sendok)]_vars

\* ------------------------------------------------------------ campaign ids
\* new_campaign_id called again and again, in a process whose _campaign_seq is
\* anywhere in the first or in the last SeqWindow values of its range
SeqWindow == 60

call_new_campaign_id ==
    /\ campaign_seq' = NextCampaignSeq(campaign_seq)
    /\ reply' = RA("new_campaign_id", 0, "", <<new_campaign_id(campaign_seq)>>)
    /\ UNCHANGED <<settingsVars, grantVars, sessVars, campaign_messages, campaign_base_msg,
                   message_to_campaign, campaign_prompt_msgs, campaign_counters,
                   reactions_counters, schedVars, pubs, votes, envVars, disk, restarts>>

InitSeq ==
    /\ campaign_seq \in (0..SeqWindow) \cup ((CampaignModulus - SeqWindow)..(CampaignModulus - 1))
    /\ global_settings = DefaultSettings
    /\ disabled_chats = [u \in Users |-> {}]
    /\ blocked_admins = [c \in Chats |-> {}]
    /\ known_chats_admins = [c \in Chats |-> {}]
    /\ temp_grants = EmptyMap
    /\ start_tokens = EmptyMap
    /\ sessions = EmptyMap
    /\ campaign_messages = EmptyMap
    /\ campaign_base_msg = EmptyMap
    /\ message_to_campaign = EmptyMap
    /\ campaign_prompt_msgs = EmptyMap
    /\ campaign_counters = EmptyMap
    /\ reactions_counters = EmptyMap
    /\ active_rebroadcasts = EmptyMap
    /\ jobs = <<>>
    /\ pubs = <<>>
    /\ votes = <<>>
    /\ now = 0
    /\ next_mid = 1
    /\ delivered = {}
    /\ keyboards = EmptyMap
    /\ restarts = 0
    /\ reply = R("init", 0, "")
    /\ disk = NoFile

SpecSeq == InitSeq /\ [][call_new_campaign_id]_vars

\* C29: every id returned by new_campaign_id is in 1..9,999,999, and of two
\* successive calls the second returns an id different from the first's and
\* larger than it, except for the call that wraps around at 10,000,000.
C29_SuccessiveIdsDiffer ==
    [][reply'.op = "new_campaign_id"
          => /\ reply'.arg[1] \in 1..(CampaignModulus - 1)
             /\ reply.op = "new_campaign_id"
                   => /\ reply'.arg[1] # reply.arg[1]
                      /\ \/ reply'.arg[1] > reply.arg[1]
                         \/ reply.arg[1] = CampaignModulus - 1]_vars

\* ---------------------------------------------------------------------------
\* The payload of a registered rebroadcast job while its owner builds further
\* sessions: the scheduled publication of InitSched, its ticks, and the owner's
\* later session operations (keyword, a photo put in, clear).

NextPayload ==
    \/ Len(pubs) < MaxFanOuts /\ on_button_publish(1)
    \/ FanOut
    \/ \E t \in 1..Len(pubs) : _publish_and_report(t)
    \/ \E j \in 1..Len(jobs) : Len(pubs) < MaxFanOuts /\ rebroadcast_job_begin(j)
    \/ \E t \in 1..Len(pubs) : rebroadcast_job_end(t)
    \/ start_publishing_keyword(1)
    \/ handle_admin_input(1, "photo")
    \/ on_button_clear(1)

SpecPayload == InitSched /\ [][NextPayload]_vars

\* C30: once a rebroadcast job is registered, every step of every operation
\* leaves its payload's text, media_list, single_attachment, destinations, owner,
\* campaign id and total as they are; the payload's left changes only at the end
\* of a tick of that job, and then it goes down by exactly 1.
C30_PayloadFrozen ==
    [][\A j \in 1..Len(jobs) :
          /\ j <= Len(jobs')
          /\ jobs'[j].name = jobs[j].name
          /\ [jobs'[j].data EXCEPT !.left = jobs[j].data.left] = jobs[j].data
          /\ \/ jobs'[j].data.left = jobs[j].data.left
             \/ /\ jobs'[j].data.left = jobs[j].data.left - 1
                /\ reply'.op = "tick_end"
                /\ jobs[j].running
                /\ ~jobs'[j].running]_vars

\* a tick of a two-run job has ended (left went from 2 to 1) and the owner has
\* since opened a new session and put a photo into it, while the payload still
\* holds the published text and no media
C30_Witness ==
    /\ Len(jobs) = 1
    /\ jobs[1].ticks = 1
    /\ ~jobs[1].running
    /\ jobs[1].data.total = 2
    /\ jobs[1].data.left = 1
    /\ jobs[1].data.media_list = 0
    /\ HasSession(1)
    /\ Sess(1).media_list > 0

\* ---------------------------------------------------------------------------
\* One grant, pressed twice: admin 1 grants chat 1 to user 2 once, user 2 opens
\* a session, puts a text in and presses publish, also while a publish task of
\* the same session is still in flight.
NextRace ==
    \/ ~Has(temp_grants, 2) /\ cmd_temp_ok(1, 2, 1)
    \/ start_publishing_keyword(2)
    \/ handle_admin_input(2, "text")
    \/ on_button_publish(2)
    \/ FanOut
    \/ \E t \in 1..Len(pubs) : _publish_and_report(t)

SpecRace == InitRegistered /\ [][NextRace]_vars

\* C31: a single grant authorises at most one publish fan-out: the content of the
\* holder's session is delivered to the granted chat at most once per grant, also
\* when publish is pressed again before the first publish task has finished.
C31_OneFanOutPerGrant ==
    \A u \in Guests :
        Has(temp_grants, u)
            => Cardinality({d \in delivered : d[2] = temp_grants[u].chat_id}) <= 1

\* C32: the updates of campaign_prompt_msgs made by the destinations of one
\* rebroadcast tick are not lost: a reconciliation step of the tick brings back no
\* prompt that was dropped as unreachable (it adds only a prompt sent in that
\* step), and when the tick ends every prompt that it sent (a message of a
\* destination that is newer than the content the tick delivered there) is tracked.
C32_TickPromptUpdatesKept ==
    [][\A t \in 1..Len(pubs) :
          (pubs[t].kind = "tick" /\ pubs[t].tmp.campaign_id # 0)
          => LET camp == pubs[t].tmp.campaign_id
                 before == SeqSet(PromptsOf(camp))
                 after == IF IK(camp) \in DOMAIN campaign_prompt_msgs'
                          THEN SeqSet(campaign_prompt_msgs'[IK(camp)]) ELSE {}
             IN /\ reply'.op = "prompt" => (after \ before) \subseteq {<<reply'.arg[2], next_mid>>}
                /\ (reply'.op = "tick_end" /\ pubs[t].pc = "report")
                      => \A p \in DOMAIN keyboards :
                            (pubs[t].mids[p[1]] # 0 /\ p[2] > pubs[t].mids[p[1]])
                               => p \in before]_vars

\* C33: the completion of a publish removes only the session that was published:
\* when the user has opened a new session while the publish task was in flight
\* (the task holds the old Session object, sessions[user] is the new one), the new
\* session is still in sessions, as it was, after the task has reported.
C33_ReportKeepsNewSession ==
    [][\A t \in 1..Len(pubs) :
          (/\ pubs[t].kind = "publish"
           /\ pubs[t].pc = "report"
           /\ ~pubs[t].shared
           /\ HasSession(pubs[t].user)
           /\ reply'.op = "publish_result"
           /\ reply'.user = pubs[t].user)
          => /\ Has(sessions', pubs[t].user)
             /\ sessions'[pubs[t].user] = Sess(pubs[t].user)]_vars

\* ---------------------------------------------------------------------------
\* Stopping schedules: the publication of InitGate (one destination, chat 1),
\* its ticks, the stop button of the campaign and the stop buttons of the
\* control panel (every chat, or one chat)
NextStop ==
    \/ Len(pubs) < MaxFanOuts /\ on_button_publish(1)
    \/ FanOut
    \/ \E t \in 1..Len(pubs) : _publish_and_report(t)
    \/ \E j \in 1..Len(jobs) : Len(pubs) < MaxFanOuts /\ rebroadcast_job_begin(j)
    \/ \E t \in 1..Len(pubs) : rebroadcast_job_end(t)
    \/ \E camp \in 1..MaxCampaigns : stop_rebroadcast(1, camp)
    \/ \E target \in 0..NumChats : PanelSchedStop(1, target)

SpecStop == InitGate /\ [][NextStop]_vars

\* C34: after any sequence of schedule start, tick, stop_rebroadcast and
\* control-panel stop, a job name is a key of active_rebroadcasts if and only if
\* a live recurring timer with that name exists.
C34_RegistryIffLiveTimer ==
    \A u \in Users, camp \in 1..MaxCampaigns :
        Has(active_rebroadcasts, JobName(u, camp))
            <=> \E j \in 1..Len(jobs) : jobs[j].name = JobName(u, camp) /\ jobs[j].live

\* ---------------------------------------------------------------------------
\* Votes and a restart: the published campaign of InitVote, the likes of user 1
\* and the dislikes of user 2 on its two messages, and a restart of the process
\* from the state file
NextReload ==
    \/ \E u \in Users, target \in {<<1, 1>>, <<2, 2>>} :
           vote_dispatch(u, IF u = 1 THEN "like" ELSE "dislike", target[1], target[2])
    \/ \E v \in 1..Len(votes) : handle_reactions(v)
    \/ \E v \in 1..Len(votes), p \in Chats \X (0..MaxMid) : handle_reactions_edit(v, p, TRUE)
    \/ \E v \in 1..Len(votes) : _sync_campaign_keyboards(v, TRUE)
    \/ \E v \in 1..Len(votes) : handle_reactions_finish(v)
    \/ Restart

SpecReload == InitVote /\ [][NextReload]_vars

\* C35: the one-vote-per-user rule survives a restart: when the state that was
\* loaded holds the vote of user U on campaign C, a further vote by U on a message
\* of C is answered as already voted and changes no counter record.
C35_VoteRuleSurvivesRestart ==
    [][\A v \in 1..Len(votes) :
          LET u == votes[v].user
              key == PK(votes[v].chat_id, votes[v].mid)
              camp == IF Has(message_to_campaign, key) THEN message_to_campaign[key] ELSE 0
          IN (/\ restarts > 0
              /\ votes[v].pc = "queued"
              /\ camp # 0
              /\ Has(campaign_counters, SK(camp))
              /\ Has(campaign_counters[SK(camp)].voters, SK(u))
              /\ reply'.op = "vote"
              /\ reply'.user = u
              /\ \/ votes' = RemoveAt(votes, v)
                 \/ Len(votes') = Len(votes) /\ votes'[v].pc = "after")
             => /\ reply'.text = "already"
                /\ campaign_counters' = campaign_counters
                /\ reactions_counters' = reactions_counters]_vars

\* ---------------------------------------------------------------------------
\* Grants and deep links over time: admin 1 grants a chat to user 2, again and
\* again, and the users redeem the deep links, some of them after their expiry
NextToken ==
    \/ AdvanceTime
    \/ \E chat \in Chats : IssueGrant(1, 2, chat, TokenSlots)
    \/ \E u \in Users, tok \in 1..TokenSlots : start_with_token(u, tok)

SpecToken == InitRegistered /\ [][NextToken]_vars

\* C36: an unused grant whose expiry lies in the future stays as it is through
\* every redemption of a start token, successful or failed, also of an older,
\* expired token that was issued to the same user before the grant was re-issued.
C36_TokenKeepsLiveGrant ==
    [][\A u \in Users :
          (_user_has_active_grant(u) /\ reply'.op = "token")
          => /\ Has(temp_grants', u)
             /\ temp_grants'[u] = temp_grants[u]]_vars

\* C37: in every reachable state, in every campaign counter record and every
\* single-message reaction record, like + dislike is the number of entries of
\* voters, like is the number of voters whose stored action is "like", and
\* neither counter is negative.
C37_CountersMatchVoters ==
    \A rec \in {campaign_counters[k] : k \in DOMAIN campaign_counters}
                  \cup {reactions_counters[k] : k \in DOMAIN reactions_counters} :
        /\ rec.like >= 0
        /\ rec.dislike >= 0
        /\ rec.like + rec.dislike = Cardinality(DOMAIN rec.voters)
        /\ rec.like = Cardinality({x \in DOMAIN rec.voters : rec.voters[x] = "like"})

\* after a restart the loaded record of campaign 1 holds a like and a dislike,
\* and a vote cast since then is held by a single-message record
C37_Witness ==
    /\ restarts = 1
    /\ Has(campaign_counters, SK(1))
    /\ campaign_counters[SK(1)].like = 1
    /\ campaign_counters[SK(1)].dislike = 1
    /\ \E k \in DOMAIN reactions_counters : reactions_counters[k].dislike = 1

\* ---------------------------------------------------------------------------
\* The repeat count: user 1, ready to publish to every chat, sets the number of
\* repeats (0 included), switches the schedule on and publishes; the job ticks
NextCount ==
    \/ \E cnt \in 0..MaxTotal : on_button_ssched_count(1, cnt)
    \/ on_button_sschedule_done(1)
    \/ Len(pubs) < MaxFanOuts /\ on_button_publish(1)
    \/ FanOut
    \/ \E t \in 1..Len(pubs) : _publish_and_report(t)
    \/ \E j \in 1..Len(jobs) : Len(pubs) < MaxFanOuts /\ rebroadcast_job_begin(j)
    \/ \E t \in 1..Len(pubs) : rebroadcast_job_end(t)

SpecCount == InitAccess /\ [][NextCount]_vars

\* C38: a rebroadcast job registered with total = N, for any N >= 0, performs
\* exactly N rebroadcast publishes (never more than N, and N when its countdown
\* has ended it; none when N = 0), and every registry entry has 1 <= left <= total.
C38_ExactlyNForEveryN ==
    \A j \in 1..Len(jobs) :
        /\ jobs[j].ticks <= jobs[j].data.total
        /\ jobs[j].ended = "exhausted" => jobs[j].ticks = jobs[j].data.total
        /\ (\E n \in DOMAIN active_rebroadcasts : active_rebroadcasts[n].job = j)
              => (1 <= jobs[j].data.left /\ jobs[j].data.left <= jobs[j].data.total)

\* ---------------------------------------------------------------------------
\* Publishing again after a restart: user 1 publishes, the process restarts from
\* the state file, the chats are registered again, and user 1 opens a session,
\* chooses every chat and publishes
NextReuse ==
    \/ Len(pubs) < MaxFanOuts /\ on_button_publish(1)
    \/ FanOut
    \/ \E t \in 1..Len(pubs) : _publish_and_report(t)
    \/ Restart
    \/ \E c \in Chats : cmd_register(c)
    \/ start_publishing_keyword(1)
    \/ on_button_choose_chats(1)
    \/ on_button_select_all(1)

SpecReuse == InitAccess /\ [][NextReuse]_vars

\* C39: the campaign id given to a new campaign is never the id of a campaign
\* that the store already holds (under the int key or under the string key of a
\* loaded state): not in campaign_messages, campaign_counters or the values of
\* message_to_campaign.
C39_NewIdIsFresh ==
    [][\A u \in Users :
          (/\ HasSession(u)
           /\ Sess(u).campaign_id = 0
           /\ Has(sessions', u)
           /\ sessions'[u].campaign_id # 0)
          => LET cid == sessions'[u].campaign_id
             IN /\ ~Has(campaign_messages, IK(cid)) /\ ~Has(campaign_messages, SK(cid))
                /\ ~Has(campaign_counters, IK(cid)) /\ ~Has(campaign_counters, SK(cid))
                /\ \A k \in DOMAIN message_to_campaign : message_to_campaign[k] # cid]_vars

\* C40: while the global scheduling_enabled flag is false no rebroadcast tick
\* delivers content to any destination, also not a tick of a job that was
\* registered before scheduling was switched off in the control panel.
C40_NoTickWhileSchedulingOff ==
    [][(\E t \in 1..Len(pubs) :
           /\ pubs[t].kind = "tick"
           /\ Len(pubs') = Len(pubs)
           /\ pubs'[t].mids # pubs[t].mids
           /\ delivered' # delivered)
       => global_settings.scheduling_enabled]_vars

====
